---- MODULE Spec2Model ----
(***************************************************************************)
(* ai-cloud-doctor: configuration resolution (loadConfig / saveConfig /    *)
(* configure), live-mode detection (ensureAwsLive), the completion client  *)
(* constructor (makeOpenAI), the live-gated analyzers and the job ledger   *)
(* (logJob / getJobLogs).                                                  *)
(*                                                                         *)
(* JavaScript values are tagged records: undefined, null, NaN, strings,    *)
(* numbers and objects.  A string is a sequence of characters, so that     *)
(* parseInt / parseFloat / String are computed, not assumed; a string that *)
(* no conversion ever inspects (a key, a region name) is written as a      *)
(* one-element sequence holding the whole token.                           *)
(* Units of number payloads: counts (tokens, days, maxTokens) are plain    *)
(* integers; per-million-token rates and the temperature are thousandths   *)
(* (0.15 is 150); a job cost is in 1e-9 dollars, so that                   *)
(* tokens / 1e6 * rate is the exact integer tokens * rateInThousandths.    *)
(***************************************************************************)
EXTENDS Integers, Sequences, FiniteSets, TLC

VARIABLES
  env,              \* process.env of the running process
  cfgFile,          \* ~/.ai-cloud-doctor-configs.json
  jobsFile,         \* ~/.ai-cloud-doctor-jobs.json
  cfgWriter,        \* who wrote cfgFile last: "user", "loadConfig" or "saveConfig"
  pc,               \* where the running process is: "start", "loaded", "done"
  cfg,              \* the AppConfig the process last obtained from loadConfig
  op,               \* name of the call that completed last
  args,             \* its arguments
  ret,              \* its return value (Undef when it threw)
  err,              \* "none", or the kind of error it threw
  pre,              \* files and environment as they were when the call began
  awsCalls,         \* AWS CLI subprocesses started by the call
  completionCalls,  \* requests sent to the completion endpoint by the call
  tasks             \* the asynchronous activities in flight: the logJob of each
                    \* concurrent invocation, or the analyzers a command runs

vars == <<env, cfgFile, jobsFile, cfgWriter, pc, cfg, op, args, ret, err, pre, awsCalls, completionCalls,
         tasks>>

----------------------------------------------------------------------------
(* Bounds *)

MaxEnvVars == 2        \* environment variables set at process start
MaxFileFields == 2     \* fields present in the persisted configuration
MaxCliOpts == 1        \* options present in a CLI option map
MaxAnswers == 1        \* non-empty answers in one configure dialogue
MaxJobs == 2           \* records in the ledger before a call

----------------------------------------------------------------------------
(* JavaScript values *)

Undef == [t |-> "undefined"]
Null == [t |-> "null"]
NaN == [t |-> "NaN"]
Str(s) == [t |-> "string", v |-> s]
Num(n) == [t |-> "number", v |-> n]
Bool(b) == [t |-> "boolean", v |-> b]
Obj(o) == [t |-> "object", v |-> o]
Arr(s) == [t |-> "array", v |-> s]

\* ToBoolean
Truthy(x) ==
  CASE x.t = "undefined" -> FALSE
    [] x.t = "null" -> FALSE
    [] x.t = "NaN" -> FALSE
    [] x.t = "string" -> x.v # <<>>
    [] x.t = "number" -> x.v # 0
    [] x.t = "boolean" -> x.v
    [] OTHER -> TRUE

\* a || b
Or(a, b) == IF Truthy(a) THEN a ELSE b

\* o.f for an object o: undefined when the property is absent
Get(o, f) == IF o.t = "object" /\ f \in DOMAIN o.v THEN o.v[f] ELSE Undef

Digits == <<"0", "1", "2", "3", "4", "5", "6", "7", "8", "9">>

IsDigit(c) == \E i \in 1..10 : Digits[i] = c

DigitVal(c) == (CHOOSE i \in 1..10 : Digits[i] = c) - 1

RECURSIVE DigitPrefix(_)
DigitPrefix(s) ==
  IF s = <<>> \/ ~IsDigit(Head(s)) THEN <<>>
  ELSE <<Head(s)>> \o DigitPrefix(Tail(s))

RECURSIVE DecValue(_)
DecValue(ds) ==
  IF ds = <<>> THEN 0
  ELSE DecValue(SubSeq(ds, 1, Len(ds) - 1)) * 10 + DigitVal(ds[Len(ds)])

RECURSIVE DecDigits(_)
DecDigits(n) ==
  IF n < 10 THEN <<Digits[n + 1]>>
  ELSE DecDigits(n \div 10) \o <<Digits[(n % 10) + 1]>>

\* String(x)
ToStr(x) ==
  CASE x.t = "string" -> x
    [] x.t = "number" ->
         Str(IF x.v < 0 THEN <<"-">> \o DecDigits(-x.v) ELSE DecDigits(x.v))
    [] x.t = "NaN" -> Str(<<"N", "a", "N">>)
    [] x.t = "null" -> Str(<<"n", "u", "l", "l">>)
    [] OTHER -> Str(<<"u", "n", "d", "e", "f", "i", "n", "e", "d">>)

\* parseInt(s) of a string: optional sign, then the longest decimal prefix
ParseIntStr(s) ==
  LET signed == s # <<>> /\ Head(s) \in {"-", "+"}
      body == IF signed THEN Tail(s) ELSE s
      ds == DigitPrefix(body)
  IN IF ds = <<>> THEN NaN
     ELSE IF signed /\ Head(s) = "-" THEN Num(-DecValue(ds))
     ELSE Num(DecValue(ds))

\* parseInt(x): the argument is converted to a string first
parseInt(x) == ParseIntStr(ToStr(x).v)

\* parseFloat(s), in thousandths: decimal prefix, then up to three digits
\* after a point (the strings used here carry at most three)
ParseFloatStr(s) ==
  LET ip == DigitPrefix(s)
      rest == SubSeq(s, Len(ip) + 1, Len(s))
      fr == IF rest # <<>> /\ Head(rest) = "." THEN DigitPrefix(Tail(rest)) ELSE <<>>
      fr3 == SubSeq(fr \o <<"0", "0", "0">>, 1, 3)
  IN IF ip = <<>> /\ fr = <<>> THEN NaN
     ELSE Num(DecValue(ip) * 1000 + DecValue(fr3))

parseFloat(x) == ParseFloatStr(ToStr(x).v)

\* JSON.parse(JSON.stringify(x)): NaN becomes null, an undefined property is
\* dropped (an absent property and an undefined one are both Undef here)
RECURSIVE Json(_)
Json(x) ==
  CASE x.t = "NaN" -> Null
    [] x.t = "object" ->
         Obj([k \in {j \in DOMAIN x.v : x.v[j] # Undef} |-> Json(x.v[k])])
    [] x.t = "array" -> Arr([i \in 1..Len(x.v) |-> Json(x.v[i])])
    [] OTHER -> x

\* an object literal: the properties that were given a value
Prune(o) == [k \in {j \in DOMAIN o : o[j] # Undef} |-> o[k]]

EmptyObj == Obj(<<>>)

\* { ...a, ...b }: b's defined properties over a's
Spread(a, b) ==
  Obj([k \in DOMAIN a.v \cup DOMAIN Prune(b) |->
         IF k \in DOMAIN Prune(b) THEN b[k] ELSE a.v[k]])

----------------------------------------------------------------------------
(* Files *)

Missing == [kind |-> "missing"]
Malformed == [kind |-> "malformed"]
JsonFile(x) == [kind |-> "json", data |-> x]

\* fs.readFile followed by JSON.parse: "throws" when the file is missing or
\* is not JSON
ReadThrows(file) == file.kind # "json"

\* fs.writeFile(path, JSON.stringify(x)): the write either replaces the whole
\* file or fails and leaves it alone
WriteFile(file, x, ok) == IF ok THEN JsonFile(Json(x)) ELSE file

----------------------------------------------------------------------------
(* Configuration resolver: loadConfig *)

EnvNames == {"OPENAI_API_KEY", "AWS_REGION", "AWS_DEFAULT_REGION",
             "AWS_ACCESS_KEY_ID", "AWS_SECRET_ACCESS_KEY", "AWS_SESSION_TOKEN"}

AllowedScanPeriods == {1, 7, 30, 120, 365}

\* fileCfg = JSON.parse(contents), or {} when the read or the parse throws
ReadConfig(file) == IF ReadThrows(file) THEN EmptyObj ELSE file.data

envRegion(e) == Or(e["AWS_REGION"], e["AWS_DEFAULT_REGION"])

\* mutant: the environment variable is consulted before the CLI option
cfgOpenaiKey_EnvFirst(cli, e, fileCfg) ==
  IF Truthy(e["OPENAI_API_KEY"]) THEN e["OPENAI_API_KEY"]
  ELSE IF Truthy(Get(cli, "openaiKey")) THEN ToStr(Get(cli, "openaiKey"))
  ELSE IF Truthy(Get(fileCfg, "openaiKey")) THEN Get(fileCfg, "openaiKey")
  ELSE Undef

\* cfg.openaiKey: CLI option overrides env and file
cfgOpenaiKey(cli, e, fileCfg) ==
  IF Truthy(Get(cli, "openaiKey")) THEN ToStr(Get(cli, "openaiKey"))
  ELSE IF Truthy(e["OPENAI_API_KEY"]) THEN e["OPENAI_API_KEY"]
  ELSE IF Truthy(Get(fileCfg, "openaiKey")) THEN Get(fileCfg, "openaiKey")
  ELSE Undef

\* cfg.model: CLI overrides file
cfgModel(cli, e, fileCfg) ==
  IF Truthy(Get(cli, "model")) THEN ToStr(Get(cli, "model"))
  ELSE IF Truthy(Get(fileCfg, "model")) THEN Get(fileCfg, "model")
  ELSE Undef

\* cfg.maxTokens: CLI overrides file
cfgMaxTokens(cli, e, fileCfg) ==
  IF Truthy(Get(cli, "maxTokens")) THEN parseInt(ToStr(Get(cli, "maxTokens")))
  ELSE IF Truthy(Get(fileCfg, "maxTokens")) THEN Get(fileCfg, "maxTokens")
  ELSE Undef

\* cfg.scanPeriod: CLI overrides file, validate allowed values
cfgScanPeriod(cli, e, fileCfg) ==
  IF Truthy(Get(cli, "scanPeriod"))
  THEN LET period == parseInt(ToStr(Get(cli, "scanPeriod")))
       IN IF period.t = "number" /\ period.v \in AllowedScanPeriods
          THEN period ELSE Undef
  ELSE IF Truthy(Get(fileCfg, "scanPeriod")) THEN Get(fileCfg, "scanPeriod")
  ELSE Undef

\* mutant: the stored region is never consulted
cfgRegion_NoFile(cli, e, fileCfg) ==
  IF Truthy(Get(cli, "region")) THEN ToStr(Get(cli, "region"))
  ELSE IF Truthy(envRegion(e)) THEN envRegion(e)
  ELSE Undef

\* cfg.region: CLI overrides env and file
cfgRegion(cli, e, fileCfg) ==
  IF Truthy(Get(cli, "region")) THEN ToStr(Get(cli, "region"))
  ELSE IF Truthy(envRegion(e)) THEN envRegion(e)
  ELSE IF Truthy(Get(fileCfg, "region")) THEN Get(fileCfg, "region")
  ELSE Undef

\* mutant: with the key pair from the environment, a token the environment
\* lacks is taken from the file
awsCreds_FileToken(cli, e, fileCfg) ==
  IF Truthy(e["AWS_ACCESS_KEY_ID"]) /\ Truthy(e["AWS_SECRET_ACCESS_KEY"])
  THEN Obj(Prune([accessKeyId |-> e["AWS_ACCESS_KEY_ID"],
                  secretAccessKey |-> e["AWS_SECRET_ACCESS_KEY"],
                  sessionToken |-> Or(e["AWS_SESSION_TOKEN"],
                                      Get(Get(fileCfg, "awsCredentials"), "sessionToken"))]))
  ELSE IF Truthy(Get(fileCfg, "awsCredentials")) THEN Get(fileCfg, "awsCredentials")
  ELSE Undef

\* awsCreds: environment variables, then file
awsCreds(cli, e, fileCfg) ==
  IF Truthy(e["AWS_ACCESS_KEY_ID"]) /\ Truthy(e["AWS_SECRET_ACCESS_KEY"])
  THEN Obj(Prune([accessKeyId |-> e["AWS_ACCESS_KEY_ID"],
                  secretAccessKey |-> e["AWS_SECRET_ACCESS_KEY"],
                  sessionToken |-> e["AWS_SESSION_TOKEN"]]))
  ELSE IF Truthy(Get(fileCfg, "awsCredentials")) THEN Get(fileCfg, "awsCredentials")
  ELSE Undef

\* (cli.mode || "auto").toString()
requestedMode(cli) == ToStr(Or(Get(cli, "mode"), Str(<<"auto">>)))

\* mutant: only --mode offline makes the configuration offline
cfgOffline_ModeOnly(cli, e, fileCfg) == requestedMode(cli) = Str(<<"offline">>)

\* cfg.offline: --mode overrides everything; auto: offline if no credentials
cfgOffline(cli, e, fileCfg) ==
  IF requestedMode(cli) = Str(<<"offline">>) THEN TRUE
  ELSE IF requestedMode(cli) = Str(<<"live">>) THEN FALSE
  ELSE ~Truthy(awsCreds(cli, e, fileCfg))

\* the AppConfig loadConfig returns
loadConfigResult(cli, e, fileCfg) ==
  Obj(Prune([openaiKey |-> cfgOpenaiKey(cli, e, fileCfg),
             model |-> cfgModel(cli, e, fileCfg),
             maxTokens |-> cfgMaxTokens(cli, e, fileCfg),
             scanPeriod |-> cfgScanPeriod(cli, e, fileCfg),
             region |-> cfgRegion(cli, e, fileCfg),
             offline |-> Bool(cfgOffline(cli, e, fileCfg)),
             awsCredentials |-> awsCreds(cli, e, fileCfg)]))

\* mutant: the object written holds the added fields only
toPersist_Fresh(cli, e, fileCfg) ==
  LET c == loadConfigResult(cli, e, fileCfg)
  IN Spread(EmptyObj,
       [openaiKey |-> IF Truthy(Get(c, "openaiKey")) /\ ~Truthy(Get(fileCfg, "openaiKey"))
                      THEN Get(c, "openaiKey") ELSE Undef,
        region |-> IF Truthy(Get(c, "region")) /\ ~Truthy(Get(fileCfg, "region"))
                   THEN Get(c, "region") ELSE Undef,
        awsCredentials |->
          IF Truthy(awsCreds(cli, e, fileCfg)) /\ ~Truthy(Get(fileCfg, "awsCredentials"))
          THEN awsCreds(cli, e, fileCfg) ELSE Undef])

\* toPersist: the stored object plus the API key, region and credentials that
\* were resolved but not stored
toPersist(cli, e, fileCfg) ==
  LET c == loadConfigResult(cli, e, fileCfg)
  IN Spread(fileCfg,
       [openaiKey |-> IF Truthy(Get(c, "openaiKey")) /\ ~Truthy(Get(fileCfg, "openaiKey"))
                      THEN Get(c, "openaiKey") ELSE Undef,
        region |-> IF Truthy(Get(c, "region")) /\ ~Truthy(Get(fileCfg, "region"))
                   THEN Get(c, "region") ELSE Undef,
        awsCredentials |->
          IF Truthy(awsCreds(cli, e, fileCfg)) /\ ~Truthy(Get(fileCfg, "awsCredentials"))
          THEN awsCreds(cli, e, fileCfg) ELSE Undef])

needsWrite(cli, e, fileCfg) ==
  LET c == loadConfigResult(cli, e, fileCfg)
  IN \/ Truthy(Get(c, "openaiKey")) /\ ~Truthy(Get(fileCfg, "openaiKey"))
     \/ Truthy(Get(c, "region")) /\ ~Truthy(Get(fileCfg, "region"))
     \/ Truthy(awsCreds(cli, e, fileCfg)) /\ ~Truthy(Get(fileCfg, "awsCredentials"))

\* the configuration file after loadConfig(cli); a failed write is ignored
cfgFileAfterLoad(cli, e, file, writeOk) ==
  IF needsWrite(cli, e, ReadConfig(file))
  THEN WriteFile(file, toPersist(cli, e, ReadConfig(file)), writeOk)
  ELSE file

cfgWriterAfterLoad(cli, e, file, writeOk, writer) ==
  IF needsWrite(cli, e, ReadConfig(file)) /\ writeOk THEN "loadConfig" ELSE writer

----------------------------------------------------------------------------
(* Live-mode detector: ensureAwsLive *)

LiveTrue == [ret |-> Obj([live |-> Bool(TRUE)]), err |-> "none"]
LiveFalse == [ret |-> Obj([live |-> Bool(FALSE)]), err |-> "none"]
LiveError ==
  [ret |-> Undef, err |-> "Error: AWS credentials not found but --mode=live requested."]

\* mutant: the offline request is not looked at
ensureAwsLive_NoOffline(c, cli) ==
  IF requestedMode(cli) = Str(<<"live">>)
  THEN IF Truthy(Get(c, "awsCredentials")) THEN LiveTrue ELSE LiveError
  ELSE IF Truthy(Get(c, "awsCredentials")) THEN LiveTrue ELSE LiveFalse

\* mutant: live without credentials degrades to offline instead of throwing
ensureAwsLive_NoThrow(c, cli) ==
  IF requestedMode(cli) = Str(<<"offline">>) THEN LiveFalse
  ELSE IF Truthy(Get(c, "awsCredentials")) THEN LiveTrue ELSE LiveFalse

\* mutant: auto mode never goes live
ensureAwsLive_AutoOffline(c, cli) ==
  IF requestedMode(cli) = Str(<<"offline">>) THEN LiveFalse
  ELSE IF requestedMode(cli) = Str(<<"live">>)
  THEN IF Truthy(Get(c, "awsCredentials")) THEN LiveTrue ELSE LiveError
  ELSE LiveFalse

\* the outcome of ensureAwsLive(c, cli): the object it returns, or the error
\* it throws
ensureAwsLive(c, cli) ==
  IF requestedMode(cli) = Str(<<"offline">>) THEN LiveFalse
  ELSE IF requestedMode(cli) = Str(<<"live">>)
  THEN IF Truthy(Get(c, "awsCredentials")) THEN LiveTrue ELSE LiveError
  ELSE IF Truthy(Get(c, "awsCredentials")) THEN LiveTrue
  ELSE LiveFalse

----------------------------------------------------------------------------
(* Inputs *)

\* the functions on at most n of the keys ks, each key k mapped into dom[k]
Partial(ks, dom, n) ==
  UNION {{f \in [S -> UNION {dom[k] : k \in S}] : \A k \in S : f[k] \in dom[k]} :
           S \in {T \in SUBSET ks : Cardinality(T) <= n}}

EnvValue ==
  [n \in EnvNames |->
     CASE n = "OPENAI_API_KEY" -> {Str(<<"sk-env">>)}
       [] n = "AWS_REGION" -> {Str(<<"env-region">>)}
       [] n = "AWS_DEFAULT_REGION" -> {Str(<<"env-default-region">>)}
       [] n = "AWS_ACCESS_KEY_ID" -> {Str(<<"AKIAENV">>)}
       [] n = "AWS_SECRET_ACCESS_KEY" -> {Str(<<"SECRETENV">>)}
       [] OTHER -> {Str(<<"TOKENENV">>)}]

\* process.env[n] is undefined for a variable that is not set
MkEnv(f) == [n \in EnvNames |-> IF n \in DOMAIN f THEN f[n] ELSE Undef]

\* temporary credentials exported to the shell: key id, secret and token
EnvWithToken ==
  MkEnv([n \in {"AWS_ACCESS_KEY_ID", "AWS_SECRET_ACCESS_KEY", "AWS_SESSION_TOKEN"} |->
           CASE n = "AWS_ACCESS_KEY_ID" -> Str(<<"AKIAENV">>)
             [] n = "AWS_SECRET_ACCESS_KEY" -> Str(<<"SECRETENV">>)
             [] OTHER -> Str(<<"TOKENENV">>)])

Envs == {MkEnv(f) : f \in Partial(EnvNames, EnvValue, MaxEnvVars)} \cup {EnvWithToken}

NoEnv == MkEnv(<<>>)

FileCreds == Obj([accessKeyId |-> Str(<<"AKIAFILE">>),
                  secretAccessKey |-> Str(<<"SECRETFILE">>)])

FileCredsWithToken == Obj([accessKeyId |-> Str(<<"AKIAFILE">>),
                           secretAccessKey |-> Str(<<"SECRETFILE">>),
                           sessionToken |-> Str(<<"TOKENFILE">>)])

\* credentials as a hand-made file may hold them: the secret is not there
FileCredsWithoutSecret == Obj([accessKeyId |-> Str(<<"AKIAFILE">>)])

\* the six fields loadConfig reads, and one of those it does not read but
\* carries along when it writes the file back
FileFields == {"openaiKey", "model", "maxTokens", "scanPeriod", "region",
               "awsCredentials", "inputTokenCost"}

FileValue ==
  [k \in FileFields |->
     CASE k = "openaiKey" -> {Str(<<"sk-file">>)}
       [] k = "model" -> {Str(<<"gpt-file">>)}
       [] k = "maxTokens" -> {Num(500), Num(0), Null}
       [] k = "scanPeriod" -> {Num(7), Num(45)}
       [] k = "region" -> {Str(<<"file-region">>)}
       [] k = "awsCredentials" -> {FileCreds, FileCredsWithToken}
       [] OTHER -> {Num(300)}]

\* the file saveConfig wrote when an earlier configure had every question
\* answered: all thirteen fields, none with the value configure falls back on
CompleteFile ==
  JsonFile(Obj([openaiKey |-> Str(<<"sk-file">>), model |-> Str(<<"gpt-file">>),
                maxTokens |-> Num(500), inputTokenCost |-> Num(300),
                outputTokenCost |-> Num(1200), cachedTokenCost |-> Num(100),
                serviceTier |-> Str(<<"standard">>),
                reasoningEffort |-> Str(<<"medium">>), temperature |-> Num(500),
                verbosity |-> Str(<<"medium">>), scanPeriod |-> Num(7),
                region |-> Str(<<"file-region">>), awsCredentials |-> FileCreds]))

\* files made by hand: credentials without the secret, an empty API key
HandMadeFiles ==
  {JsonFile(Obj([awsCredentials |-> FileCredsWithoutSecret])),
   JsonFile(Obj([openaiKey |-> Str(<<>>), model |-> Str(<<"gpt-file">>)])),
   CompleteFile}

CfgFiles ==
  {Missing, Malformed} \cup HandMadeFiles \cup
  {JsonFile(Obj(f)) : f \in Partial(FileFields, FileValue, MaxFileFields)}

CliOptions == {"openaiKey", "model", "maxTokens", "scanPeriod", "region", "mode"}

CliValue ==
  [k \in CliOptions |->
     CASE k = "openaiKey" -> {Str(<<"sk-cli">>)}
       [] k = "model" -> {Str(<<"gpt-cli">>)}
       [] k = "maxTokens" -> {Str(<<"9", "0", "0">>), Str(<<"x">>)}
       [] k = "scanPeriod" -> {Str(<<"7">>), Str(<<"3", "6", "5">>),
                               Str(<<"4", "5">>), Str(<<"x">>)}
       [] k = "region" -> {Str(<<"cli-region">>)}
       [] OTHER -> {Str(<<"auto">>), Str(<<"live">>), Str(<<"offline">>)}]

Clis == {Obj(f) : f \in Partial(CliOptions, CliValue, MaxCliOpts)}

----------------------------------------------------------------------------
(* Processes *)

Snapshot == [env |-> env, cfgFile |-> cfgFile, jobsFile |-> jobsFile, cfgWriter |-> cfgWriter]

\* a process starts with some environment, the files as an earlier process or
\* the user left them
Fresh(e) ==
  /\ env = e
  /\ pc = "start"
  /\ cfg = Undef
  /\ op = "start"
  /\ args = Undef
  /\ ret = Undef
  /\ err = "none"
  /\ awsCalls = 0
  /\ completionCalls = 0
  /\ tasks = <<>>

\* cfg = await loadConfig(cli)
LoadConfig(cli, writeOk) ==
  /\ pc = "start"
  /\ pc' = "loaded"
  /\ op' = "loadConfig"
  /\ args' = [cli |-> cli]
  /\ pre' = Snapshot
  /\ ret' = loadConfigResult(cli, env, ReadConfig(cfgFile))
  /\ cfg' = ret'
  /\ err' = "none"
  /\ cfgFile' = cfgFileAfterLoad(cli, env, cfgFile, writeOk)
  /\ cfgWriter' = cfgWriterAfterLoad(cli, env, cfgFile, writeOk, cfgWriter)
  /\ UNCHANGED <<env, jobsFile, awsCalls, completionCalls, tasks>>

\* live = await ensureAwsLive(cfg, options), with the options loadConfig got
EnsureAwsLive ==
  /\ pc = "loaded"
  /\ op = "loadConfig"
  /\ pc' = IF ensureAwsLive(cfg, args.cli).err = "none" THEN "loaded" ELSE "done"
  /\ op' = "ensureAwsLive"
  /\ args' = [cfg |-> cfg, cli |-> args.cli]
  /\ pre' = Snapshot
  /\ ret' = ensureAwsLive(cfg, args.cli).ret
  /\ err' = ensureAwsLive(cfg, args.cli).err
  /\ UNCHANGED <<env, cfgFile, jobsFile, cfgWriter, cfg, awsCalls, completionCalls, tasks>>

\* the process ends; a fresh invocation starts without the environment
\* variables the resolver reads
Exit ==
  /\ pc = "loaded"
  /\ pc' = "start"
  /\ env' = NoEnv
  /\ cfg' = Undef
  /\ op' = "start"
  /\ args' = Undef
  /\ ret' = Undef
  /\ err' = "none"
  /\ awsCalls' = 0
  /\ completionCalls' = 0
  /\ UNCHANGED tasks
  /\ pre' = [env |-> NoEnv, cfgFile |-> cfgFile, jobsFile |-> jobsFile, cfgWriter |-> cfgWriter]
  /\ UNCHANGED <<cfgFile, jobsFile, cfgWriter>>

----------------------------------------------------------------------------
(* The configure command: configureCredentials and saveConfig *)

Prompts == {"openaiKey", "model", "serviceTier", "maxTokens", "inputTokenCost",
            "outputTokenCost", "cachedTokenCost", "reasoningEffort",
            "temperature", "verbosity", "scanPeriod", "region", "accessKeyId",
            "secretAccessKey", "sessionToken", "setupProfile"}

AnswerValue ==
  [k \in Prompts |->
     CASE k = "openaiKey" -> {Str(<<"sk-new">>)}
       [] k = "model" -> {Str(<<"gpt-new">>)}
       [] k = "serviceTier" -> {Str(<<"standard">>)}
       [] k = "maxTokens" -> {Str(<<"8", "0", "0">>), Str(<<"0">>), Str(<<"x">>)}
       [] k = "inputTokenCost" -> {Str(<<"0", ".", "3">>)}
       [] k = "outputTokenCost" -> {Str(<<"1", ".", "2">>)}
       [] k = "cachedTokenCost" -> {Str(<<"0", ".", "1">>)}
       [] k = "reasoningEffort" -> {Str(<<"medium">>)}
       [] k = "temperature" -> {Str(<<"0", ".", "5">>)}
       [] k = "verbosity" -> {Str(<<"medium">>)}
       [] k = "scanPeriod" -> {Str(<<"1", "2", "0">>), Str(<<"4", "5">>), Str(<<"x">>)}
       [] k = "region" -> {Str(<<"new-region">>)}
       [] k = "accessKeyId" -> {Str(<<"AKIANEW">>)}
       [] k = "secretAccessKey" -> {Str(<<"SECRETNEW">>)}
       [] k = "sessionToken" -> {Str(<<"TOKENNEW">>)}
       [] OTHER -> {Str(<<"y">>), Str(<<"Y">>)}]

\* pressing Enter answers a prompt with the empty string
MkAnswers(f) == [k \in Prompts |-> IF k \in DOMAIN f THEN f[k] ELSE Str(<<>>)]

AnswerSets == {MkAnswers(f) : f \in Partial(Prompts, AnswerValue, MaxAnswers)}

\* s.toLowerCase(), for the letters the answers use
toLowerCase(x) ==
  Str([i \in 1..Len(x.v) |-> IF x.v[i] = "Y" THEN "y" ELSE x.v[i]])

\* validateScanPeriod(period) inside configureCredentials
validateScanPeriod(period, existing) ==
  LET p == IF period.t = "string" THEN parseInt(period) ELSE period
      q == Or(p, Num(0))
  IN IF q.t = "number" /\ q.v \in AllowedScanPeriods
     THEN p
     ELSE Or(Get(existing, "scanPeriod"), Num(30))

\* a ? b : c
Cond(a, b, c) == IF Truthy(a) THEN b ELSE c

finalConfig(a, existing) ==
  LET creds == Get(existing, "awsCredentials")
  IN Obj(Prune(
    [openaiKey |-> Or(a.openaiKey, Get(existing, "openaiKey")),
     model |-> Or(a.model, Get(existing, "model")),
     maxTokens |-> Cond(a.maxTokens, parseInt(a.maxTokens), Get(existing, "maxTokens")),
     inputTokenCost |-> Cond(a.inputTokenCost, parseFloat(a.inputTokenCost),
                             Or(Get(existing, "inputTokenCost"), Num(150))),
     outputTokenCost |-> Cond(a.outputTokenCost, parseFloat(a.outputTokenCost),
                              Or(Get(existing, "outputTokenCost"), Num(600))),
     cachedTokenCost |-> Cond(a.cachedTokenCost, parseFloat(a.cachedTokenCost),
                              Or(Get(existing, "cachedTokenCost"), Num(75))),
     serviceTier |-> Or(Or(a.serviceTier, Get(existing, "serviceTier")), Str(<<"auto">>)),
     reasoningEffort |-> Or(Or(a.reasoningEffort, Get(existing, "reasoningEffort")),
                            Str(<<"low">>)),
     temperature |-> Cond(a.temperature, parseFloat(a.temperature),
                          Or(Get(existing, "temperature"), Num(700))),
     verbosity |-> Or(Or(a.verbosity, Get(existing, "verbosity")), Str(<<"low">>)),
     scanPeriod |-> validateScanPeriod(a.scanPeriod, existing),
     region |-> Or(Or(a.region, Get(existing, "region")), Str(<<"us-east-1">>)),
     awsCredentials |->
       IF /\ Truthy(Or(a.accessKeyId, Get(creds, "accessKeyId")))
          /\ Truthy(Or(a.secretAccessKey, Get(creds, "secretAccessKey")))
       THEN Obj(Prune(
              [accessKeyId |-> Or(a.accessKeyId, Get(creds, "accessKeyId")),
               secretAccessKey |-> Or(a.secretAccessKey, Get(creds, "secretAccessKey")),
               sessionToken |-> Or(a.sessionToken, Get(creds, "sessionToken"))]))
       ELSE Undef]))

\* what the question for k shows between brackets: the existing value or the
\* default named in the question, and for a secret whether there is one
promptDefault(k, existing) ==
  LET creds == Get(existing, "awsCredentials")
      secret(x) == Cond(x, Str(<<"***">>), Str(<<"none">>))
  IN CASE k = "openaiKey" -> secret(Get(existing, "openaiKey"))
       [] k = "model" -> Or(Get(existing, "model"), Str(<<"gpt-5-nano">>))
       [] k = "serviceTier" -> Or(Get(existing, "serviceTier"), Str(<<"flex">>))
       [] k = "maxTokens" -> Or(Get(existing, "maxTokens"), Str(<<"5", "0", "0">>))
       [] k = "inputTokenCost" ->
            Or(Get(existing, "inputTokenCost"), Str(<<"0", ".", "1", "5">>))
       [] k = "outputTokenCost" ->
            Or(Get(existing, "outputTokenCost"), Str(<<"0", ".", "6">>))
       [] k = "cachedTokenCost" ->
            Or(Get(existing, "cachedTokenCost"), Str(<<"0", ".", "0", "7", "5">>))
       [] k = "reasoningEffort" -> Or(Get(existing, "reasoningEffort"), Str(<<"low">>))
       [] k = "temperature" -> Or(Get(existing, "temperature"), Str(<<"1", ".", "0">>))
       [] k = "verbosity" -> Or(Get(existing, "verbosity"), Str(<<"low">>))
       [] k = "scanPeriod" -> Or(Get(existing, "scanPeriod"), Str(<<"3", "0">>))
       [] k = "region" -> Or(Get(existing, "region"), Str(<<"us-east-1">>))
       [] k = "setupProfile" -> Str(<<"n">>)
       [] OTHER -> secret(Get(creds, k))

\* the aws-configure-set commands setupAwsProfile issues when none fails
profileCommands(config) ==
  IF Truthy(Get(Get(config, "awsCredentials"), "sessionToken")) THEN 4 ELSE 3

\* configureCredentials(): existing = await loadConfig(); the prompts;
\* await saveConfig(finalConfig); then setupAwsProfile if asked for.
\* saveConfig does not catch a failed write; setupAwsProfile stops at the
\* first command that fails.
Configure(a, writeOk, saveOk, started) ==
  /\ pc = "start"
  /\ saveOk => writeOk    \* a successful save overwrites what loadConfig wrote
  /\ \E existing \in {loadConfigResult(EmptyObj, env, ReadConfig(cfgFile))} :
     \E final \in {finalConfig(a, existing)} :
     \E setup \in {/\ saveOk
                /\ toLowerCase(a.setupProfile) = Str(<<"y">>)
                /\ Truthy(Get(final, "awsCredentials"))} :
     /\ started \in 1..(IF setup THEN profileCommands(final) ELSE 1)
     /\ pc' = "done"
     /\ op' = "configure"
     /\ args' = [answers |-> a,
                 shown |-> [k \in Prompts |-> promptDefault(k, existing)]]
     /\ pre' = Snapshot
     /\ cfg' = existing
     /\ ret' = IF saveOk THEN final ELSE Undef
     /\ err' = IF saveOk THEN "none" ELSE "Error: writeFile failed"
     /\ cfgFile' = WriteFile(cfgFileAfterLoad(EmptyObj, env, cfgFile, writeOk), final, saveOk)
     /\ cfgWriter' = IF saveOk THEN "saveConfig"
                     ELSE cfgWriterAfterLoad(EmptyObj, env, cfgFile, writeOk, cfgWriter)
     /\ awsCalls' = IF setup THEN started ELSE 0
     /\ UNCHANGED <<env, jobsFile, completionCalls, tasks>>

InitConfig ==
  /\ \E e \in Envs : Fresh(e)
  /\ cfgFile \in CfgFiles
  /\ cfgWriter = "user"
  /\ jobsFile = Missing
  /\ pre = Snapshot

NextConfig ==
  \/ \E cli \in Clis, writeOk \in BOOLEAN : LoadConfig(cli, writeOk)
  \/ EnsureAwsLive
  \/ Exit

SpecConfig == InitConfig /\ [][NextConfig]_vars

\* the configure command, run on every stored configuration and environment
NextConfigure ==
  \E a \in AnswerSets, writeOk, saveOk \in BOOLEAN, started \in 1..4 :
    Configure(a, writeOk, saveOk, started)

SpecConfigure == InitConfig /\ [][NextConfigure]_vars

----------------------------------------------------------------------------
(* Job ledger: generateJobId, logJob, calculateCost, getJobLogs *)

HexDigits == <<"0", "1", "2", "3", "4", "5", "6", "7", "8", "9",
               "a", "b", "c", "d", "e", "f">>

\* Buffer.toString('hex'): two digits for every byte
RECURSIVE toHex(_)
toHex(bytes) ==
  IF bytes = <<>> THEN <<>>
  ELSE <<HexDigits[(Head(bytes) \div 16) + 1], HexDigits[(Head(bytes) % 16) + 1]>>
       \o toHex(Tail(bytes))

\* randomBytes(8).toString('hex'), for the bytes the generator produced
generateJobId(bytes) == Str(toHex(bytes))

\* getJobLogs(): whatever JSON the file holds, or [] when the read or the
\* parse throws
getJobLogs(file) == IF ReadThrows(file) THEN Arr(<<>>) ELSE file.data

\* calculateCost(inputTokens, outputTokens, cachedTokens = 0) on the
\* configuration loadConfig() returned
calculateCost(inputTokens, outputTokens, cachedTokens, config) ==
  LET cached == IF cachedTokens = Undef THEN Num(0) ELSE cachedTokens
      actualInputTokens == inputTokens.v - cached.v
      inputCost == actualInputTokens * Or(Get(config, "inputTokenCost"), Num(150)).v
      outputCost == outputTokens.v * Or(Get(config, "outputTokenCost"), Num(600)).v
      cachedCost == cached.v * Or(Get(config, "cachedTokenCost"), Num(75)).v
  IN Num(inputCost + outputCost + cachedCost)

\* mutant: the cost is the one passed in, and none is computed when none is passed
jobRecord_PassedCostOnly(id, jobName, now, inputTokens, outputTokens, cost, model, cachedTokens, config) ==
  Obj(Prune(
    [id |-> id,
     name |-> jobName,
     timestamp |-> now,
     inputTokens |-> inputTokens,
     outputTokens |-> outputTokens,
     cachedTokens |-> cachedTokens,
     totalTokens |-> Num(inputTokens.v + outputTokens.v + Or(cachedTokens, Num(0)).v),
     cost |-> cost,
     model |-> model]))

\* the JobLog object logJob builds
jobRecord(id, jobName, now, inputTokens, outputTokens, cost, model, cachedTokens, config) ==
  Obj(Prune(
    [id |-> id,
     name |-> jobName,
     timestamp |-> now,
     inputTokens |-> inputTokens,
     outputTokens |-> outputTokens,
     cachedTokens |-> cachedTokens,
     totalTokens |-> Num(inputTokens.v + outputTokens.v + Or(cachedTokens, Num(0)).v),
     cost |-> IF Truthy(cost) THEN cost
              ELSE calculateCost(inputTokens, outputTokens, cachedTokens, config),
     model |-> model]))

\* mutant: the file is rewritten with the new record alone
pushJob_Alone(jobs, job) == Arr(<<job>>)

\* mutant: the record is put in front of the existing ones (unshift)
pushJob_Front(jobs, job) == Arr(<<job>> \o jobs.v)

\* jobs.push(job)
pushJob(jobs, job) == Arr(Append(jobs.v, job))

\* logJob(jobName, inputTokens, outputTokens, cost, model, cachedTokens) in a
\* process with environment e and the three files as given: what it returns or
\* throws, and the files afterwards.  The cost is computed when none is passed,
\* and computing it calls loadConfig(), which may write the configuration
\* file.  jobs.push throws when the ledger file holds JSON that is not an
\* array; a failed write of the ledger is not caught.
logJob(e, cfile, writer, jfile, call, w) ==
  LET config == loadConfigResult(EmptyObj, e, ReadConfig(cfile))
      jobId == generateJobId(w.bytes)
      job == jobRecord(jobId, call.jobName, w.now, call.inputTokens, call.outputTokens,
                       call.cost, call.model, call.cachedTokens, config)
      jobs == getJobLogs(jfile)
      thrown == IF jobs.t # "array" THEN "TypeError: jobs.push is not a function"
                ELSE IF ~w.writeOk THEN "Error: writeFile failed"
                ELSE "none"
  IN [ret |-> IF thrown = "none" THEN jobId ELSE Undef,
      err |-> thrown,
      cfgFile |-> IF Truthy(call.cost) THEN cfile
                  ELSE cfgFileAfterLoad(EmptyObj, e, cfile, w.cfgWriteOk),
      cfgWriter |-> IF Truthy(call.cost) THEN writer
                    ELSE cfgWriterAfterLoad(EmptyObj, e, cfile, w.cfgWriteOk, writer),
      jobsFile |-> IF thrown = "none" THEN WriteFile(jfile, pushJob(jobs, job), TRUE)
                   ELSE jfile]

\* the second and later logJob calls of a process that the model explores:
\* the provider reported the cost and the model
FollowUp(inputTokens, cost, model, bytes) ==
  /\ inputTokens = Num(1200)
  /\ cost = Num(5000)
  /\ model # Undef
  /\ bytes = <<1, 2, 3, 4, 5, 6, 7, 8>>

\* jobId = await logJob(...), called first thing in a process, or after an
\* earlier logJob of the same process returned (a scan logs one job per
\* analyzer); the follow-up calls explored are the ones FollowUp admits, while
\* the ledger has room
LogJob(jobName, inputTokens, outputTokens, cost, model, cachedTokens, bytes, now, cfgWriteOk, writeOk) ==
  /\ pc \in {"start", "logged"}
  /\ pc = "logged" => /\ FollowUp(inputTokens, cost, model, bytes)
                      /\ Len(getJobLogs(jobsFile).v) <= MaxJobs
  /\ Truthy(cost) => cfgWriteOk
  /\ \E call \in {[jobName |-> jobName, inputTokens |-> inputTokens,
                   outputTokens |-> outputTokens, cost |-> cost, model |-> model,
                   cachedTokens |-> cachedTokens]} :
     \E r \in {logJob(env, cfgFile, cfgWriter, jobsFile, call,
                      [bytes |-> bytes, now |-> now, cfgWriteOk |-> cfgWriteOk,
                       writeOk |-> writeOk])} :
     /\ pc' = IF r.err = "none" THEN "logged" ELSE "done"
     /\ op' = "logJob"
     /\ args' = call
     /\ pre' = Snapshot
     /\ ret' = r.ret
     /\ err' = r.err
     /\ cfgFile' = r.cfgFile
     /\ cfgWriter' = r.cfgWriter
     /\ jobsFile' = r.jobsFile
     /\ UNCHANGED <<env, cfg, awsCalls, completionCalls, tasks>>

\* the files and the environment, and the call that completed before this one
SnapshotAfter ==
  [env |-> env, cfgFile |-> cfgFile, jobsFile |-> jobsFile, cfgWriter |-> cfgWriter,
   prev |-> [op |-> op, args |-> args, ret |-> ret, err |-> err]]

\* jobs = await getJobLogs(), first thing in a process or right after logJob
GetJobLogs ==
  /\ pc \in {"start", "logged"}
  /\ pc' = "read"
  /\ op' = "getJobLogs"
  /\ args' = Undef
  /\ pre' = SnapshotAfter
  /\ ret' = getJobLogs(jobsFile)
  /\ err' = "none"
  /\ UNCHANGED <<env, cfgFile, jobsFile, cfgWriter, cfg, awsCalls, completionCalls, tasks>>

\* inputs of the ledger
RandomBytes8 == {<<10, 255, 0, 16, 7, 128, 66, 201>>, <<1, 2, 3, 4, 5, 6, 7, 8>>}

Timestamps == {Str(<<"2025-01-01T00:00:00.000Z">>)}

JobNames == {Str(<<"cost-analysis">>), Str(<<"lambda-analysis">>)}

\* input, output and cached token counts of one call
TokenCounts ==
  {[inputTokens |-> Num(1000000), outputTokens |-> Num(0), cachedTokens |-> Undef],
   [inputTokens |-> Num(1200), outputTokens |-> Num(300), cachedTokens |-> Num(200)],
   [inputTokens |-> Num(0), outputTokens |-> Num(0), cachedTokens |-> Num(0)]}

\* the cost the provider reported: none, zero, or 5000e-9 dollars
ProviderCosts == {Undef, Num(0), Num(5000)}

ModelNames == {Undef, Str(<<"gpt-5-nano">>)}

\* records that earlier calls of logJob left in the ledger
OldJobs ==
  {jobRecord(Str(toHex(<<0, 17, 34, 51, 68, 85, 102, 119>>)), Str(<<"tf-analysis">>),
             Str(<<"2024-12-31T00:00:00.000Z">>), Num(10), Num(20), Undef,
             Str(<<"gpt-5-nano">>), Undef, EmptyObj),
   jobRecord(Str(toHex(<<136, 153, 170, 187, 204, 221, 238, 255>>)), Str(<<"cost-analysis">>),
             Str(<<"2024-12-31T00:00:01.000Z">>), Num(500), Num(100), Num(7000),
             Undef, Num(50), EmptyObj)}

SeqsUpTo(S, n) == UNION {[1..k -> S] : k \in 0..n}

Ledgers ==
  {Missing, Malformed, JsonFile(EmptyObj)} \cup
  {JsonFile(Arr(js)) : js \in SeqsUpTo(OldJobs, MaxJobs)}

\* stored configurations with and without per-million rates
LedgerCfgFiles ==
  {Missing, Malformed, JsonFile(EmptyObj),
   JsonFile(Obj([inputTokenCost |-> Num(300)])),
   JsonFile(Obj([inputTokenCost |-> Num(300), outputTokenCost |-> Num(1200),
                 cachedTokenCost |-> Num(100)])),
   JsonFile(Obj([openaiKey |-> Str(<<"sk-file">>), cachedTokenCost |-> Num(0)]))}

LedgerEnvs == {NoEnv, MkEnv([n \in {"OPENAI_API_KEY"} |-> Str(<<"sk-env">>)])}

InitLedger ==
  /\ \E e \in LedgerEnvs : Fresh(e)
  /\ cfgFile \in LedgerCfgFiles
  /\ cfgWriter = "user"
  /\ jobsFile \in Ledgers
  /\ pre = Snapshot

NextLedger ==
  \/ \E jobName \in JobNames, tokens \in TokenCounts, cost \in ProviderCosts,
        model \in ModelNames, bytes \in RandomBytes8, now \in Timestamps,
        cfgWriteOk, writeOk \in BOOLEAN :
       LogJob(jobName, tokens.inputTokens, tokens.outputTokens, cost, model,
              tokens.cachedTokens, bytes, now, cfgWriteOk, writeOk)
  \/ GetJobLogs

SpecLedger == InitLedger /\ [][NextLedger]_vars

----------------------------------------------------------------------------
(* Two concurrent invocations, each logging one job to the same ledger *)

Invocations == {1, 2}

\* mutant: the write step reads the file again and appends to what it holds now
writeJobs_Reread(file, jobs, job, ok) ==
  WriteFile(file, pushJob(getJobLogs(file), job), ok)

\* jobs.push(job); await fs.writeFile(jobsPath, JSON.stringify(jobs, null, 2)):
\* the file is replaced by the sequence read earlier plus the new record
writeJobs(file, jobs, job, ok) == WriteFile(file, pushJob(jobs, job), ok)

\* logJob of invocation p up to the return of await getJobLogs(): the record
\* is built (the provider's cost is passed, so no configuration is loaded) and
\* the whole ledger is read; push on a value that is not an array throws
RaceRead(p, jobName, inputTokens, outputTokens, cost, model, cachedTokens, bytes, now) ==
  /\ tasks[p].pc = "start"
  /\ Truthy(cost)
  /\ \E jobs \in {getJobLogs(jobsFile)} :
       tasks' = [tasks EXCEPT ![p] =
                   [pc |-> IF jobs.t = "array" THEN "read" ELSE "done",
                    job |-> jobRecord(generateJobId(bytes), jobName, now, inputTokens,
                                      outputTokens, cost, model, cachedTokens, EmptyObj),
                    jobs |-> jobs,
                    ret |-> Undef,
                    err |-> IF jobs.t = "array" THEN "none"
                            ELSE "TypeError: jobs.push is not a function"]]
  /\ UNCHANGED <<env, cfgFile, jobsFile, cfgWriter, pc, cfg, op, args, ret, err, pre,
                 awsCalls, completionCalls>>

\* the rest of logJob of invocation p: the whole file is rewritten and the id
\* is returned, or the write throws
RaceWrite(p, writeOk) ==
  /\ tasks[p].pc = "read"
  /\ jobsFile' = writeJobs(jobsFile, tasks[p].jobs, tasks[p].job, writeOk)
  /\ tasks' = [tasks EXCEPT ![p] =
                 [@ EXCEPT !.pc = "done",
                           !.ret = IF writeOk THEN Get(tasks[p].job, "id") ELSE Undef,
                           !.err = IF writeOk THEN "none" ELSE "Error: writeFile failed"]]
  /\ UNCHANGED <<env, cfgFile, cfgWriter, pc, cfg, op, args, ret, err, pre,
                 awsCalls, completionCalls>>

InitRace ==
  /\ env = NoEnv
  /\ cfgFile = Missing
  /\ cfgWriter = "user"
  /\ jobsFile \in Ledgers
  /\ pc = "start"
  /\ cfg = Undef
  /\ op = "start"
  /\ args = Undef
  /\ ret = Undef
  /\ err = "none"
  /\ awsCalls = 0
  /\ completionCalls = 0
  /\ pre = Snapshot
  /\ tasks = [p \in Invocations |->
                [pc |-> "start", job |-> Undef, jobs |-> Undef, ret |-> Undef,
                 err |-> "none"]]

NextRace ==
  \/ \E p \in Invocations, jobName \in JobNames, tokens \in TokenCounts,
        cost \in ProviderCosts, model \in ModelNames, bytes \in RandomBytes8,
        now \in Timestamps :
       RaceRead(p, jobName, tokens.inputTokens, tokens.outputTokens, cost, model,
                tokens.cachedTokens, bytes, now)
  \/ \E p \in Invocations, writeOk \in BOOLEAN : RaceWrite(p, writeOk)

SpecRace == InitRace /\ [][NextRace]_vars

----------------------------------------------------------------------------
(* Completion client: makeOpenAI and ask *)

\* mutant: the constructor does not look at the key
makeOpenAI_NoCheck(config) ==
  [ret |-> Obj(Prune([apiKey |-> Get(config, "openaiKey")])), err |-> "none"]

\* makeOpenAI(config): the client, or the error thrown; reading a property of
\* undefined or null is a TypeError
makeOpenAI(config) ==
  IF config.t \in {"undefined", "null"}
  THEN [ret |-> Undef,
        err |-> "TypeError: Cannot read properties of undefined (reading 'openaiKey')"]
  ELSE IF ~Truthy(Get(config, "openaiKey"))
  THEN [ret |-> Undef, err |-> "Error: OPENAI_API_KEY missing."]
  ELSE [ret |-> Obj([apiKey |-> Get(config, "openaiKey")]), err |-> "none"]

\* makeOpenAI(openaiKey, model, maxTokens), the constructor analyzeCost calls
makeOpenAIFromKey(openaiKey) ==
  IF ~Truthy(openaiKey)
  THEN [ret |-> Undef, err |-> "Error: OPENAI_API_KEY missing."]
  ELSE [ret |-> Obj([apiKey |-> openaiKey]), err |-> "none"]

\* what openai.chat.completions.create does: it throws an error with a
\* message, or resolves to a completion without choices, with an empty
\* message, or with content; the provider reports usage or leaves it out
Completions ==
  {[kind |-> "throws", message |-> <<"429", "rate", "limit">>, usage |-> Undef,
    model |-> Undef],
   [kind |-> "nochoices", message |-> <<>>, usage |-> Undef,
    model |-> Str(<<"gpt-5-nano">>)],
   [kind |-> "empty", message |-> <<>>, model |-> Str(<<"gpt-5-nano">>),
    usage |-> Obj([prompt_tokens |-> Num(1200), completion_tokens |-> Num(0)])],
   [kind |-> "content", message |-> <<>>, usage |-> Undef,
    model |-> Str(<<"gpt-5-nano">>)],
   [kind |-> "content", message |-> <<>>, model |-> Str(<<"gpt-5-nano">>),
    usage |-> Obj([prompt_tokens |-> Num(1200), completion_tokens |-> Num(300),
                   prompt_tokens_details |-> Obj([cached_tokens |-> Num(200)])])],
   [kind |-> "content", message |-> <<>>, model |-> Str(<<"gpt-5-nano">>),
    usage |-> Obj([prompt_tokens |-> Num(1200), completion_tokens |-> Num(300),
                   total_cost |-> Num(5000)])]}

\* the response built from a completion that has content
contentResponse(completion, content) ==
  Obj(Prune(
    [content |-> content,
     inputTokens |-> Or(Get(completion.usage, "prompt_tokens"), Num(0)),
     outputTokens |-> Or(Get(completion.usage, "completion_tokens"), Num(0)),
     cachedTokens |-> Or(Get(Get(completion.usage, "prompt_tokens_details"),
                             "cached_tokens"), Num(0)),
     cost |-> Get(completion.usage, "total_cost"),
     model |-> completion.model]))

\* mutant: the test for empty content is missing
askResponse_NoEmptyCheck(completion) ==
  CASE completion.kind = "throws" ->
         Obj([content |-> Str(<<"OpenAI API error", ": ">> \o completion.message),
              inputTokens |-> Num(0), outputTokens |-> Num(0)])
    [] completion.kind = "nochoices" ->
         Obj([content |-> Str(<<"OpenAI returned no choices">>),
              inputTokens |-> Num(0), outputTokens |-> Num(0)])
    [] completion.kind = "empty" -> contentResponse(completion, Str(<<>>))
    [] OTHER -> contentResponse(completion, Str(<<"| Section | Details |">>))

\* the OpenAIResponse ask() resolves to; the catch around the request turns
\* an exception into a response
askResponse(completion) ==
  CASE completion.kind = "throws" ->
         Obj([content |-> Str(<<"OpenAI API error", ": ">> \o completion.message),
              inputTokens |-> Num(0), outputTokens |-> Num(0)])
    [] completion.kind = "nochoices" ->
         Obj([content |-> Str(<<"OpenAI returned no choices">>),
              inputTokens |-> Num(0), outputTokens |-> Num(0)])
    [] completion.kind = "empty" ->
         Obj([content |-> Str(<<"OpenAI returned empty content.", " Response: ", "{ ... }">>),
              inputTokens |-> Num(0), outputTokens |-> Num(0)])
    [] OTHER -> contentResponse(completion, Str(<<"| Section | Details |">>))

\* ask() of the client makeOpenAI(openaiKey, model, maxTokens) returns: the
\* same, without the cached token count
askResponseFromKey(completion) ==
  Obj([k \in DOMAIN askResponse(completion).v \ {"cachedTokens"} |->
         askResponse(completion).v[k]])

----------------------------------------------------------------------------
(* Live-gated analyzers *)

\* A text is a sequence of pieces; text.includes(phrase)
Contains(text, phrase) ==
  /\ text.t = "string"
  /\ \E i \in 0..(Len(text.v) - Len(phrase)) :
       SubSeq(text.v, i + 1, i + Len(phrase)) = phrase

MaxChecks == 2         \* checks that describe-trusted-advisor-checks lists

TopChecks == 10

Min(a, b) == IF a < b THEN a ELSE b

IsSpace(c) == c \in {" ", "\t", "\n", "\r"}

\* q.replace(/[\n\r]/g, " ")
RECURSIVE replaceNewlines(_)
replaceNewlines(q) ==
  IF q = <<>> THEN <<>>
  ELSE <<IF Head(q) \in {"\n", "\r"} THEN " " ELSE Head(q)>> \o replaceNewlines(Tail(q))

RECURSIVE dropSpaces(_)
dropSpaces(q) == IF q # <<>> /\ IsSpace(Head(q)) THEN dropSpaces(Tail(q)) ELSE q

\* q.replace(/\s+/g, " ")
RECURSIVE collapseSpaces(_)
collapseSpaces(q) ==
  IF q = <<>> THEN <<>>
  ELSE IF IsSpace(Head(q)) THEN <<" ">> \o collapseSpaces(dropSpaces(Tail(q)))
  ELSE <<Head(q)>> \o collapseSpaces(Tail(q))

RECURSIVE dropTrailingSpaces(_)
dropTrailingSpaces(q) ==
  IF q # <<>> /\ IsSpace(q[Len(q)]) THEN dropTrailingSpaces(SubSeq(q, 1, Len(q) - 1))
  ELSE q

\* q.trim()
trim(q) == dropTrailingSpaces(dropSpaces(q))

\* q.replace(/\//g, "\\/")
RECURSIVE escapeSlashes(_)
escapeSlashes(q) ==
  IF q = <<>> THEN <<>>
  ELSE <<IF Head(q) = "/" THEN "\\/" ELSE Head(q)>> \o escapeSlashes(Tail(q))

\* buildQuery(question) of the offline branch of analyzeLogs
buildQuery(q) ==
  <<"fields @timestamp, @message", "\n", "| filter @message like /">>
  \o escapeSlashes(trim(collapseSpaces(replaceNewlines(q))))
  \o <<"/", "\n", "| stats count() by bin(60s)">>

\* opts.question || opts.q || "recent errors"
logsQuestion(opts) ==
  Or(Or(Get(opts, "question"), Get(opts, "q")), Str(<<"recent", " ", "errors">>))

\* what each analyzer's live branch does: the heading, the job name, the AWS
\* CLI commands of its collector (primary ones end the collection when they
\* fail; secondary ones are skipped over), whether the collected JSON is
\* reshaped afterwards, which client it builds, and what it passes on
CostAnalyzer ==
  [title |-> <<"###", "Cost">>, jobName |-> Str(<<"cost-analysis">>),
   failure |-> "Error fetching AWS cost data", primaries |-> 1, secondary |-> "none",
   reshapes |-> FALSE, fromKey |-> TRUE, passesCached |-> FALSE, setsRegion |-> TRUE,
   returnsData |-> TRUE]

LambdaAnalyzer ==
  [title |-> <<"###", "Lambda">>, jobName |-> Str(<<"lambda-analysis">>),
   failure |-> "Error fetching AWS Lambda data", primaries |-> 2, secondary |-> "none",
   reshapes |-> TRUE, fromKey |-> FALSE, passesCached |-> TRUE, setsRegion |-> FALSE,
   returnsData |-> FALSE]

LogsAnalyzer ==
  [title |-> <<"###", "Logs">>, jobName |-> Str(<<"logs-analysis">>),
   failure |-> "Error fetching AWS logs data", primaries |-> 1, secondary |-> "none",
   reshapes |-> FALSE, fromKey |-> FALSE, passesCached |-> TRUE, setsRegion |-> FALSE,
   returnsData |-> FALSE]

IamAnalyzer ==
  [title |-> <<"###", "IAM">>, jobName |-> Str(<<"iam-analysis">>),
   failure |-> "Error fetching IAM data", primaries |-> 4, secondary |-> "one",
   reshapes |-> TRUE, fromKey |-> FALSE, passesCached |-> TRUE, setsRegion |-> FALSE,
   returnsData |-> FALSE]

TrustedAdvisorAnalyzer ==
  [title |-> <<"###", "Trusted Advisor">>, jobName |-> Str(<<"trustedadvisor-analysis">>),
   failure |-> "Error fetching Trusted Advisor data", primaries |-> 1,
   secondary |-> "perCheck", reshapes |-> TRUE, fromKey |-> FALSE,
   passesCached |-> TRUE, setsRegion |-> FALSE, returnsData |-> FALSE]

SecurityHubAnalyzer ==
  [title |-> <<"###", "Security Hub">>, jobName |-> Str(<<"securityhub-analysis">>),
   failure |-> "Error fetching Security Hub data", primaries |-> 1, secondary |-> "one",
   reshapes |-> TRUE, fromKey |-> FALSE, passesCached |-> TRUE, setsRegion |-> FALSE,
   returnsData |-> FALSE]

\* how a collection can go: one of the primary commands fails; or all commands
\* run, the listing naming that many checks; or all primary commands run and
\* their JSON lacks the member the reshaping reads
CollectOutcomes(d) ==
  {[kind |-> "failed", at |-> k, checks |-> 0] : k \in 1..d.primaries}
  \cup {[kind |-> "collected", at |-> d.primaries, checks |-> n] :
          n \in IF d.secondary = "perCheck" THEN 0..MaxChecks ELSE {0}}
  \cup IF d.reshapes THEN {[kind |-> "misshaped", at |-> d.primaries, checks |-> 0]}
       ELSE {}

\* mutant: the collector has no try/catch, a failed command leaves it
collect_NoCatch(d, outcome) ==
  CASE outcome.kind = "failed" ->
         [data |-> Undef, calls |-> outcome.at, err |-> "Error: Command failed"]
    [] outcome.kind = "misshaped" ->
         [data |-> Undef, calls |-> d.primaries + IF d.secondary = "one" THEN 1 ELSE 0,
          err |-> "TypeError: Cannot read properties of undefined"]
    [] OTHER ->
         [data |-> Str(<<"{ ... }">>), err |-> "none",
          calls |-> d.primaries +
                    CASE d.secondary = "one" -> 1
                      [] d.secondary = "perCheck" -> Min(outcome.checks, TopChecks)
                      [] OTHER -> 0]

\* getAws...Data(cfg): the string it returns, the AWS CLI commands it ran, and
\* the error it throws (none: the whole body is inside try/catch)
collect(d, outcome) ==
  CASE outcome.kind = "failed" ->
         [data |-> Str(<<d.failure, ": ", "Command failed">>), calls |-> outcome.at,
          err |-> "none"]
    [] outcome.kind = "misshaped" ->
         [data |-> Str(<<d.failure, ": ", "Cannot read properties of undefined">>),
          calls |-> d.primaries + IF d.secondary = "one" THEN 1 ELSE 0,
          err |-> "none"]
    [] OTHER ->
         [data |-> Str(<<"{ ... }">>), err |-> "none",
          calls |-> d.primaries +
                    CASE d.secondary = "one" -> 1
                      [] d.secondary = "perCheck" -> Min(outcome.checks, TopChecks)
                      [] OTHER -> 0]

\* the analyzer returns text without having done anything
Returned(text) ==
  [ret |-> text, err |-> "none", awsCalls |-> 0, completionCalls |-> 0,
   env |-> env, cfgFile |-> cfgFile, cfgWriter |-> cfgWriter, jobsFile |-> jobsFile,
   collect |-> Undef, collected |-> Undef, completion |-> Undef, response |-> Undef]

\* the part every analyzer runs when live and with an API key: collect, build
\* the client, ask, log the job, return.  An error thrown by the collector, by
\* makeOpenAI or by logJob leaves the analyzer.  The outcome also tells how the
\* collection went, what the collector handed to the prompt, what the
\* completion request did and the response ask() made of it.
analyzeLive(d, c, opts, w) ==
  LET collected == collect(d, w.collect)
      envAfter == IF d.setsRegion /\ Truthy(Get(c, "region"))
                  THEN [env EXCEPT !["AWS_DEFAULT_REGION"] = ToStr(Get(c, "region"))]
                  ELSE env
      client == IF d.fromKey THEN makeOpenAIFromKey(Get(c, "openaiKey")) ELSE makeOpenAI(c)
      response == IF d.fromKey THEN askResponseFromKey(w.completion)
                  ELSE askResponse(w.completion)
      logged == logJob(envAfter, cfgFile, cfgWriter, jobsFile,
                       [jobName |-> d.jobName,
                        inputTokens |-> Get(response, "inputTokens"),
                        outputTokens |-> Get(response, "outputTokens"),
                        cost |-> Get(response, "cost"),
                        model |-> Get(response, "model"),
                        cachedTokens |-> IF d.passesCached
                                         THEN Get(response, "cachedTokens") ELSE Undef],
                       w)
  IN IF collected.err # "none"
     THEN [ret |-> Undef, err |-> collected.err, awsCalls |-> collected.calls,
           completionCalls |-> 0, env |-> envAfter, cfgFile |-> cfgFile,
           cfgWriter |-> cfgWriter, jobsFile |-> jobsFile,
           collect |-> w.collect, collected |-> collected.data,
           completion |-> Undef, response |-> Undef]
     ELSE IF client.err # "none"
     THEN [ret |-> Undef, err |-> client.err, awsCalls |-> collected.calls,
           completionCalls |-> 0, env |-> envAfter, cfgFile |-> cfgFile,
           cfgWriter |-> cfgWriter, jobsFile |-> jobsFile,
           collect |-> w.collect, collected |-> collected.data,
           completion |-> Undef, response |-> Undef]
     ELSE [ret |-> IF logged.err # "none" THEN Undef
                   ELSE IF d.returnsData
                   THEN Str(d.title \o <<"\n">> \o collected.data.v \o <<"\n", "\n">>
                            \o Get(response, "content").v)
                   ELSE Str(d.title \o <<"\n", "Analysis complete">>),
           err |-> logged.err, awsCalls |-> collected.calls, completionCalls |-> 1,
           env |-> envAfter, cfgFile |-> logged.cfgFile,
           cfgWriter |-> logged.cfgWriter, jobsFile |-> logged.jobsFile,
           collect |-> w.collect, collected |-> collected.data,
           completion |-> w.completion, response |-> response]

analyzeCost(c, live, opts, w) ==
  IF ~Truthy(Get(live, "live"))
  THEN Returned(Str(<<"###", "Cost", "\n", "No", "live", "AWS", "credentials",
                      "; provide a cost report or run with credentials for analysis.">>))
  ELSE IF ~Truthy(Get(c, "openaiKey"))
  THEN Returned(Str(<<"###", "Cost", "\n",
                      "OpenAI API key missing", "; cannot perform cost analysis.">>))
  ELSE analyzeLive(CostAnalyzer, c, opts, w)

\* mutant: the live flag is not looked at
analyzeLambda_NoGate(c, live, opts, w) ==
  IF ~Truthy(Get(c, "openaiKey"))
  THEN Returned(Str(<<"###", "Lambda", "\n",
                      "OpenAI API key missing", "; cannot perform Lambda analysis.">>))
  ELSE analyzeLive(LambdaAnalyzer, c, opts, w)

analyzeLambda(c, live, opts, w) ==
  IF ~Truthy(Get(live, "live"))
  THEN Returned(Str(<<"###", "Lambda", "\n", "Offline", "mode",
                      ": supply logs/metrics export for tuning suggestions.">>))
  ELSE IF ~Truthy(Get(c, "openaiKey"))
  THEN Returned(Str(<<"###", "Lambda", "\n",
                      "OpenAI API key missing", "; cannot perform Lambda analysis.">>))
  ELSE analyzeLive(LambdaAnalyzer, c, opts, w)

\* the line that opens and closes the code block: three grave accents, which
\* a string of this language cannot hold
Fence == "<grave accent x 3>"

analyzeLogs(c, opts, live, w) ==
  IF ~Truthy(Get(live, "live"))
  THEN Returned(Str(<<"###", "Logs", "\n", "**Proposed Logs Insights query:**", "\n",
                      Fence, "\n">>
                    \o buildQuery(logsQuestion(opts).v)
                    \o <<"\n", Fence, "\n", "_", "Offline", "mode",
                         ": run this query in CloudWatch Logs Insights or provide a logs export for analysis.",
                         "_">>))
  ELSE IF ~Truthy(Get(c, "openaiKey"))
  THEN Returned(Str(<<"###", "Logs", "\n",
                      "OpenAI API key missing", "; cannot perform logs analysis.">>))
  ELSE analyzeLive(LogsAnalyzer, c, opts, w)

\* mutant: the API key is not looked at before the collector runs
analyzeIam_NoKeyGate(c, live, opts, w) ==
  IF ~Truthy(Get(live, "live"))
  THEN Returned(Str(<<"###", "IAM", "\n", "Offline", "mode",
                      ": AWS IAM API access required for permissions analysis.">>))
  ELSE analyzeLive(IamAnalyzer, c, opts, w)

analyzeIam(c, live, opts, w) ==
  IF ~Truthy(Get(live, "live"))
  THEN Returned(Str(<<"###", "IAM", "\n", "Offline", "mode",
                      ": AWS IAM API access required for permissions analysis.">>))
  ELSE IF ~Truthy(Get(c, "openaiKey"))
  THEN Returned(Str(<<"###", "IAM", "\n",
                      "OpenAI API key missing", "; cannot perform IAM analysis.">>))
  ELSE analyzeLive(IamAnalyzer, c, opts, w)

analyzeTrustedAdvisor(c, live, opts, w) ==
  IF ~Truthy(Get(live, "live"))
  THEN Returned(Str(<<"###", "Trusted Advisor", "\n", "Offline", "mode",
                      ": AWS Support API access required for Trusted Advisor analysis.">>))
  ELSE IF ~Truthy(Get(c, "openaiKey"))
  THEN Returned(Str(<<"###", "Trusted Advisor", "\n",
                      "OpenAI API key missing", "; cannot perform Trusted Advisor analysis.">>))
  ELSE analyzeLive(TrustedAdvisorAnalyzer, c, opts, w)

analyzeSecurityHub(c, live, opts, w) ==
  IF ~Truthy(Get(live, "live"))
  THEN Returned(Str(<<"###", "Security Hub", "\n", "Offline", "mode",
                      ": AWS Security Hub API access required for security analysis.">>))
  ELSE IF ~Truthy(Get(c, "openaiKey"))
  THEN Returned(Str(<<"###", "Security Hub", "\n",
                      "OpenAI API key missing", "; cannot perform Security Hub analysis.">>))
  ELSE analyzeLive(SecurityHubAnalyzer, c, opts, w)

\* the analyzer called name, invoked with the loaded configuration, live and the
\* options loadConfig got, has run to its end with outcome r; next to the
\* arguments, args keeps how the collection went, what the collector returned,
\* what the completion request did and what ask() returned
Analyzed(name, live, r) ==
  /\ pc' = "done"
  /\ op' = name
  /\ args' = [cfg |-> cfg, live |-> live, opts |-> args.cli,
              collect |-> r.collect, collected |-> r.collected,
              completion |-> r.completion, response |-> r.response]
  /\ pre' = Snapshot
  /\ ret' = r.ret
  /\ err' = r.err
  /\ env' = r.env
  /\ cfgFile' = r.cfgFile
  /\ cfgWriter' = r.cfgWriter
  /\ jobsFile' = r.jobsFile
  /\ awsCalls' = r.awsCalls
  /\ completionCalls' = r.completionCalls
  /\ UNCHANGED tasks
  /\ UNCHANGED cfg

AnalyzeCost(live, w) ==
  /\ pc = "loaded" /\ op = "loadConfig"
  /\ w.collect \in CollectOutcomes(CostAnalyzer)
  /\ Analyzed("analyzeCost", live, analyzeCost(cfg, live, args.cli, w))

AnalyzeLambda(live, w) ==
  /\ pc = "loaded" /\ op = "loadConfig"
  /\ w.collect \in CollectOutcomes(LambdaAnalyzer)
  /\ Analyzed("analyzeLambda", live, analyzeLambda(cfg, live, args.cli, w))

AnalyzeLogs(live, w) ==
  /\ pc = "loaded" /\ op = "loadConfig"
  /\ w.collect \in CollectOutcomes(LogsAnalyzer)
  /\ Analyzed("analyzeLogs", live, analyzeLogs(cfg, args.cli, live, w))

AnalyzeIam(live, w) ==
  /\ pc = "loaded" /\ op = "loadConfig"
  /\ w.collect \in CollectOutcomes(IamAnalyzer)
  /\ Analyzed("analyzeIam", live, analyzeIam(cfg, live, args.cli, w))

AnalyzeTrustedAdvisor(live, w) ==
  /\ pc = "loaded" /\ op = "loadConfig"
  /\ w.collect \in CollectOutcomes(TrustedAdvisorAnalyzer)
  /\ Analyzed("analyzeTrustedAdvisor", live, analyzeTrustedAdvisor(cfg, live, args.cli, w))

AnalyzeSecurityHub(live, w) ==
  /\ pc = "loaded" /\ op = "loadConfig"
  /\ w.collect \in CollectOutcomes(SecurityHubAnalyzer)
  /\ Analyzed("analyzeSecurityHub", live, analyzeSecurityHub(cfg, live, args.cli, w))

\* openai = makeOpenAI(config)
MakeOpenAI(config) ==
  /\ pc = "loaded" /\ op = "loadConfig"
  /\ pc' = IF makeOpenAI(config).err = "none" THEN "client" ELSE "done"
  /\ op' = "makeOpenAI"
  /\ args' = [config |-> config]
  /\ pre' = Snapshot
  /\ ret' = makeOpenAI(config).ret
  /\ err' = makeOpenAI(config).err
  /\ awsCalls' = 0
  /\ completionCalls' = 0
  /\ UNCHANGED tasks
  /\ UNCHANGED <<env, cfgFile, jobsFile, cfgWriter, cfg>>

\* response = await openai.ask(system, user): one request to the endpoint
Ask(completion) ==
  /\ pc = "client"
  /\ pc' = "done"
  /\ op' = "ask"
  /\ args' = [client |-> ret, completion |-> completion]
  /\ pre' = Snapshot
  /\ ret' = askResponse(completion)
  /\ err' = "none"
  /\ completionCalls' = completionCalls + 1
  /\ UNCHANGED tasks
  /\ UNCHANGED <<env, cfgFile, jobsFile, cfgWriter, cfg, awsCalls>>

\* inputs of the analyzers
AnalyzeEnvs ==
  {NoEnv,
   MkEnv([n \in {"OPENAI_API_KEY"} |-> Str(<<"sk-env">>)]),
   MkEnv([n \in {"OPENAI_API_KEY", "AWS_ACCESS_KEY_ID", "AWS_SECRET_ACCESS_KEY"} |->
            CASE n = "OPENAI_API_KEY" -> Str(<<"sk-env">>)
              [] n = "AWS_ACCESS_KEY_ID" -> Str(<<"AKIAENV">>)
              [] OTHER -> Str(<<"SECRETENV">>)])}

AnalyzeCfgFiles ==
  {Missing,
   JsonFile(Obj([openaiKey |-> Str(<<"sk-file">>), region |-> Str(<<"file-region">>),
                 awsCredentials |-> FileCreds])),
   JsonFile(Obj([awsCredentials |-> FileCreds, scanPeriod |-> Num(7)]))}

AnalyzeLedgers ==
  {Missing, Malformed} \cup {JsonFile(Arr(<<j>>)) : j \in OldJobs}

AnalyzeClis ==
  {EmptyObj,
   Obj([mode |-> Str(<<"offline">>)]),
   Obj([region |-> Str(<<"cli-region">>)]),
   Obj([question |-> Str(<<"timeout">>)]),
   Obj([q |-> Str(<<" ", "a", "/", "b", "\t", "\n">>)])}

LiveFlags == {Obj([live |-> Bool(TRUE)]), Obj([live |-> Bool(FALSE)])}

\* what makeOpenAI is given: nothing, an empty key, no key, or a configuration
\* that loadConfig resolved
ClientConfigs ==
  {Undef, Obj([openaiKey |-> Str(<<>>)]), Obj([model |-> Str(<<"gpt-cli">>)])}
  \cup {loadConfigResult(cli, e, ReadConfig(f)) :
          cli \in AnalyzeClis, e \in AnalyzeEnvs, f \in AnalyzeCfgFiles}

\* everything outside the process that an analyzer run depends on
Worlds ==
  [collect : UNION {CollectOutcomes(d) :
                      d \in {CostAnalyzer, LambdaAnalyzer, LogsAnalyzer, IamAnalyzer,
                             TrustedAdvisorAnalyzer, SecurityHubAnalyzer}},
   completion : Completions,
   bytes : {<<10, 255, 0, 16, 7, 128, 66, 201>>},
   now : Timestamps,
   cfgWriteOk : BOOLEAN,
   writeOk : BOOLEAN]

InitAnalyze ==
  /\ \E e \in AnalyzeEnvs : Fresh(e)
  /\ cfgFile \in AnalyzeCfgFiles
  /\ cfgWriter = "user"
  /\ jobsFile \in AnalyzeLedgers
  /\ pre = Snapshot

NextAnalyze ==
  \/ \E cli \in AnalyzeClis, writeOk \in BOOLEAN : LoadConfig(cli, writeOk)
  \/ \E live \in LiveFlags, w \in Worlds : AnalyzeCost(live, w)
  \/ \E live \in LiveFlags, w \in Worlds : AnalyzeLambda(live, w)
  \/ \E live \in LiveFlags, w \in Worlds : AnalyzeLogs(live, w)
  \/ \E live \in LiveFlags, w \in Worlds : AnalyzeIam(live, w)
  \/ \E live \in LiveFlags, w \in Worlds : AnalyzeTrustedAdvisor(live, w)
  \/ \E live \in LiveFlags, w \in Worlds : AnalyzeSecurityHub(live, w)
  \/ \E config \in ClientConfigs : MakeOpenAI(config)
  \/ \E completion \in Completions : Ask(completion)

SpecAnalyze == InitAnalyze /\ [][NextAnalyze]_vars

----------------------------------------------------------------------------
(* Commands: scan and the single-analyzer commands *)

Commands == {"scan", "cost", "lambda", "tf", "logs", "advisor", "security", "iam"}

\* the analyzers a command awaits, in the order of its awaits
plan(command) ==
  CASE command = "scan" -> <<"analyzeTf", "analyzeCost", "analyzeLambda", "analyzeLogs",
                             "analyzeTrustedAdvisor", "analyzeSecurityHub", "analyzeIam">>
    [] command = "cost" -> <<"analyzeCost">>
    [] command = "lambda" -> <<"analyzeLambda">>
    [] command = "tf" -> <<"analyzeTf">>
    [] command = "logs" -> <<"analyzeLogs">>
    [] command = "advisor" -> <<"analyzeTrustedAdvisor">>
    [] command = "security" -> <<"analyzeSecurityHub">>
    [] OTHER -> <<"analyzeIam">>

\* the commands with a --mode option call ensureAwsLive after loadConfig
takesMode(command) == command # "tf"

\* the Terraform analyzer runs no AWS CLI command; its data is the plan file
TfAnalyzer ==
  [title |-> <<"###", "Terraform">>, jobName |-> Str(<<"terraform-analysis">>),
   failure |-> "Unable to read Terraform plan file", primaries |-> 0, secondary |-> "none",
   reshapes |-> FALSE, fromKey |-> FALSE, passesCached |-> TRUE, setsRegion |-> FALSE,
   returnsData |-> FALSE]

\* analyzeTf(cfg, opts), the plan file being as given
analyzeTf(c, opts, planFile, w) ==
  IF ~Truthy(Or(Get(opts, "tfPlan"), Get(opts, "tf-plan")))
  THEN Returned(Str(<<"###", "Terraform", "\n",
                      "No plan provided; skipping detailed TF analysis.">>))
  ELSE IF planFile.kind = "missing"
  THEN Returned(Str(<<"###", "Terraform", "\n", "Unable to read Terraform plan file at">>))
  ELSE IF planFile.kind = "malformed"
  THEN Returned(Str(<<"###", "Terraform", "\n", "Invalid JSON in Terraform plan file">>))
  ELSE IF ~Truthy(Get(c, "openaiKey"))
  THEN Returned(Str(<<"###", "Logs", "\n",
                      "OpenAI API key missing", "; cannot perform terraform analysis.">>))
  ELSE analyzeLive(TfAnalyzer, c, opts, w)

descriptor(name) ==
  CASE name = "analyzeTf" -> TfAnalyzer
    [] name = "analyzeCost" -> CostAnalyzer
    [] name = "analyzeLambda" -> LambdaAnalyzer
    [] name = "analyzeLogs" -> LogsAnalyzer
    [] name = "analyzeIam" -> IamAnalyzer
    [] name = "analyzeTrustedAdvisor" -> TrustedAdvisorAnalyzer
    [] OTHER -> SecurityHubAnalyzer

\* the analyzer called name, run from its first statement to its return
analyze(name, c, live, opts, planFile, w) ==
  CASE name = "analyzeTf" -> analyzeTf(c, opts, planFile, w)
    [] name = "analyzeCost" -> analyzeCost(c, live, opts, w)
    [] name = "analyzeLambda" -> analyzeLambda(c, live, opts, w)
    [] name = "analyzeLogs" -> analyzeLogs(c, opts, live, w)
    [] name = "analyzeIam" -> analyzeIam(c, live, opts, w)
    [] name = "analyzeTrustedAdvisor" -> analyzeTrustedAdvisor(c, live, opts, w)
    [] OTHER -> analyzeSecurityHub(c, live, opts, w)

\* a world in which nothing fails
CalmWorld ==
  [collect |-> [kind |-> "collected", at |-> 1, checks |-> 0],
   completion |-> CHOOSE c \in Completions : c.kind = "nochoices",
   bytes |-> <<10, 255, 0, 16, 7, 128, 66, 201>>,
   now |-> Str(<<"2025-01-01T00:00:00.000Z">>),
   cfgWriteOk |-> TRUE,
   writeOk |-> TRUE]

\* the text of a run that returned before it collected anything (no plan,
\* offline, no API key), or Undef when the run went on to collect, ask and log
returnedEarly(r) == IF r.completionCalls = 0 /\ r.err = "none" THEN r.ret ELSE Undef

earlyReturn(name, c, live, opts, planFile) ==
  returnedEarly(analyze(name, c, live, opts, planFile, CalmWorld))

\* the arguments of the analyzer's logJob call
jobCall(d, response) ==
  [jobName |-> d.jobName,
   inputTokens |-> Get(response, "inputTokens"),
   outputTokens |-> Get(response, "outputTokens"),
   cost |-> Get(response, "cost"),
   model |-> Get(response, "model"),
   cachedTokens |-> IF d.passesCached THEN Get(response, "cachedTokens") ELSE Undef]

\* mutant: the error ensureAwsLive throws is swallowed and the command goes on
Ready_AfterThrow ==
  /\ pc \in {"loaded", "done"}
  /\ IF takesMode(tasks.command) THEN op = "ensureAwsLive"
     ELSE op = "loadConfig"

\* the command's action has loadConfig, and ensureAwsLive when it calls it,
\* behind it, and no statement of it has thrown
Ready ==
  /\ pc = "loaded"
  /\ IF takesMode(tasks.command) THEN op = "ensureAwsLive" /\ err = "none"
     ELSE op = "loadConfig"

\* mutant: the analyzers are told live whatever ensureAwsLive returned
LiveOf_AlwaysLive == Obj([live |-> Bool(TRUE)])

\* the live object the analyzers are given (analyzeTf is given none)
LiveOf == IF takesMode(tasks.command) THEN ret ELSE Undef

Event(name, step) == [analyzer |-> name, step |-> step]

\* mutant: the analyzers are called without await, one call after the other
mayStart_NoAwait(status, i) == \A j \in 1..(i - 1) : status[j] # "idle"

\* await: the i-th analyzer is called when the ones before it have returned
mayStart(status, i) == \A j \in 1..(i - 1) : status[j] = "returned"

\* the command loads the configuration with the options commander parsed
CommandLoad(cli, writeOk) ==
  /\ IF takesMode(tasks.command) THEN Get(cli, "mode") # Undef
     ELSE Get(cli, "mode") = Undef
  /\ LoadConfig(cli, writeOk)

CommandEnsureLive ==
  /\ takesMode(tasks.command)
  /\ EnsureAwsLive

\* the i-th analyzer is called: it returns at once, with the text kept in
\* early, or goes on to collect
StartAnalyzer(i) ==
  /\ Ready
  /\ i \in DOMAIN tasks.status
  /\ tasks.status[i] = "idle"
  /\ mayStart(tasks.status, i)
  /\ \E name \in {plan(tasks.command)[i]} :
     \E early \in {earlyReturn(name, cfg, LiveOf, args.cli, tasks.planFile)} :
       tasks' = [tasks EXCEPT
                   !.status[i] = IF early # Undef THEN "returned" ELSE "collecting",
                   !.early[i] = early,
                   !.trace = @ \o IF early # Undef
                                  THEN <<Event(name, "start"), Event(name, "return")>>
                                  ELSE <<Event(name, "start")>>]
  /\ UNCHANGED <<env, cfgFile, jobsFile, cfgWriter, pc, cfg, op, args, ret, err, pre,
                 awsCalls, completionCalls>>

\* its collector runs the AWS CLI commands
CollectStep(i, outcome) ==
  /\ pc = "loaded"
  /\ i \in DOMAIN tasks.status
  /\ tasks.status[i] = "collecting"
  /\ \E name \in {plan(tasks.command)[i]} :
       /\ outcome \in CollectOutcomes(descriptor(name))
       /\ awsCalls' = awsCalls + collect(descriptor(name), outcome).calls
       /\ env' = IF descriptor(name).setsRegion /\ Truthy(Get(cfg, "region"))
                 THEN [env EXCEPT !["AWS_DEFAULT_REGION"] = ToStr(Get(cfg, "region"))]
                 ELSE env
       /\ tasks' = [tasks EXCEPT
                      !.status[i] = "asking",
                      !.trace = @ \o [k \in 1..collect(descriptor(name), outcome).calls |->
                                        Event(name, "aws")]]
  /\ UNCHANGED <<cfgFile, jobsFile, cfgWriter, pc, cfg, op, args, ret, err, pre,
                 completionCalls>>

\* it builds the client and awaits openai.ask
AskStep(i, completion) ==
  /\ pc = "loaded"
  /\ i \in DOMAIN tasks.status
  /\ tasks.status[i] = "asking"
  /\ \E name \in {plan(tasks.command)[i]} :
       tasks' = [tasks EXCEPT
                   !.status[i] = "logging",
                   !.response[i] = IF descriptor(name).fromKey
                                   THEN askResponseFromKey(completion)
                                   ELSE askResponse(completion),
                   !.trace = Append(@, Event(name, "completion"))]
  /\ completionCalls' = completionCalls + 1
  /\ UNCHANGED <<env, cfgFile, jobsFile, cfgWriter, pc, cfg, op, args, ret, err, pre,
                 awsCalls>>

\* it awaits logJob and returns its text; an error logJob throws leaves the
\* analyzer and the command's action, and the process ends
LogStep(i, w) ==
  /\ pc = "loaded"
  /\ i \in DOMAIN tasks.status
  /\ tasks.status[i] = "logging"
  /\ \E name \in {plan(tasks.command)[i]} :
     \E logged \in {logJob(env, cfgFile, cfgWriter, jobsFile,
                           jobCall(descriptor(name), tasks.response[i]), w)} :
       /\ cfgFile' = logged.cfgFile
       /\ cfgWriter' = logged.cfgWriter
       /\ jobsFile' = logged.jobsFile
       /\ pc' = IF logged.err = "none" THEN pc ELSE "done"
       /\ op' = IF logged.err = "none" THEN op ELSE name
       /\ err' = logged.err
       /\ tasks' = [tasks EXCEPT
                      !.status[i] = IF logged.err = "none" THEN "returned" ELSE "threw",
                      !.trace = @ \o IF logged.err = "none"
                                     THEN <<Event(name, "ledger"), Event(name, "return")>>
                                     ELSE <<Event(name, "throw")>>]
  /\ UNCHANGED <<env, cfg, args, ret, pre, awsCalls, completionCalls>>

\* the positions of a plan
Slots == DOMAIN plan("scan")

\* inputs of the commands
CommandCfgFiles ==
  {Missing,
   JsonFile(Obj([awsCredentials |-> FileCreds])),
   JsonFile(Obj([openaiKey |-> Str(<<"sk-file">>), region |-> Str(<<"file-region">>),
                 awsCredentials |-> FileCreds]))}

CommandLedgers == {Missing} \cup {JsonFile(Arr(<<j>>)) : j \in OldJobs}

CommandClis ==
  {EmptyObj,
   Obj([tfPlan |-> Str(<<"plan.json">>)]),
   Obj([mode |-> Str(<<"auto">>)]),
   Obj([mode |-> Str(<<"live">>)]),
   Obj([mode |-> Str(<<"offline">>)])}

PlanFiles == {Missing, Malformed, JsonFile(EmptyObj)}

\* the collections, completions and ledger writes the commands are run against
CommandOutcomes ==
  {o \in UNION {CollectOutcomes(descriptor(plan("scan")[i])) : i \in Slots} :
     /\ o.kind \in {"failed", "collected"}
     /\ o.kind = "failed" => o.at = 1
     /\ o.checks = 0}

CommandCompletions ==
  {c \in Completions : c.kind = "throws" \/ Get(c.usage, "total_cost") # Undef}

LogWorlds == {w \in Worlds : w.cfgWriteOk /\ w.collect = CalmWorld.collect
                             /\ w.completion = CalmWorld.completion}

InitCommand ==
  /\ env \in AnalyzeEnvs
  /\ cfgFile \in CommandCfgFiles
  /\ cfgWriter = "user"
  /\ jobsFile \in CommandLedgers
  /\ pc = "start"
  /\ cfg = Undef
  /\ op = "start"
  /\ args = Undef
  /\ ret = Undef
  /\ err = "none"
  /\ awsCalls = 0
  /\ completionCalls = 0
  /\ pre = Snapshot
  /\ \E command \in Commands, planFile \in PlanFiles :
       /\ command # "tf" => planFile = Missing
       /\ tasks = [command |-> command,
                   planFile |-> planFile,
                   status |-> [i \in 1..Len(plan(command)) |-> "idle"],
                   response |-> [i \in 1..Len(plan(command)) |-> Undef],
                   early |-> [i \in 1..Len(plan(command)) |-> Undef],
                   trace |-> <<>>]

NextCommand ==
  \/ \E cli \in CommandClis, writeOk \in BOOLEAN : CommandLoad(cli, writeOk)
  \/ CommandEnsureLive
  \/ \E i \in Slots : StartAnalyzer(i)
  \/ \E i \in Slots, outcome \in CommandOutcomes : CollectStep(i, outcome)
  \/ \E i \in Slots, completion \in CommandCompletions : AskStep(i, completion)
  \/ \E i \in Slots, w \in LogWorlds : LogStep(i, w)

SpecCommand == InitCommand /\ [][NextCommand]_vars

----------------------------------------------------------------------------
(* The collectors that make secondary calls, with the data they serialize *)

\* JSON.parse(execSync(cmd)): the command fails (non-zero exit, timeout or
\* output that is not JSON) and the expression throws, or the output parses
CmdFailed == [kind |-> "failed"]
Parsed(x) == [kind |-> "parsed", data |-> x]

\* the order in which the properties of the objects the collectors build, and
\* of the objects the AWS CLI prints, are inserted
PropertyOrder ==
  <<"findings", "compliance", "users", "roles", "groups", "policies", "accessAnalyzer",
    "checks", "Id", "Title", "Severity", "ComplianceStatus", "ResourceType", "Description",
    "UserName", "RoleName", "GroupName", "PolicyName", "name", "category", "status",
    "resourcesSummary", "CreateDate", "PasswordLastUsed", "Tags",
    "AssumeRolePolicyDocument", "MaxSessionDuration", "AttachmentCount", "IsAttachable",
    "ComplianceSummary", "analyzers", "arn">>

\* JSON.stringify(x, null, 2) as the sequence of its tokens (white space left
\* out): an undefined property is dropped, an undefined element is null
RECURSIVE Stringify(_), StringifyMembers(_, _), StringifyElements(_, _)
Stringify(x) ==
  CASE x.t = "object" ->
         <<"{">> \o (IF StringifyMembers(x.v, 1) = <<>> THEN <<>>
                     ELSE Tail(StringifyMembers(x.v, 1))) \o <<"}">>
    [] x.t = "array" ->
         <<"[">> \o (IF x.v = <<>> THEN <<>> ELSE Tail(StringifyElements(x.v, 1))) \o <<"]">>
    [] x.t = "string" -> <<"\"">> \o x.v \o <<"\"">>
    [] x.t = "number" -> ToStr(x).v
    [] x.t = "boolean" -> <<IF x.v THEN "true" ELSE "false">>
    [] OTHER -> <<"null">>

\* the members of o from the i-th property on, each behind a comma
StringifyMembers(o, i) ==
  IF i > Len(PropertyOrder) THEN <<>>
  ELSE IF PropertyOrder[i] \in DOMAIN o /\ o[PropertyOrder[i]] # Undef
  THEN <<",", PropertyOrder[i], ":">> \o Stringify(o[PropertyOrder[i]])
       \o StringifyMembers(o, i + 1)
  ELSE StringifyMembers(o, i + 1)

\* the elements of s from the i-th on, each behind a comma
StringifyElements(s, i) ==
  IF i > Len(s) THEN <<>>
  ELSE <<",">> \o Stringify(s[i]) \o StringifyElements(s, i + 1)

\* xs?.[0]
First(xs) == IF xs.t = "array" /\ xs.v # <<>> THEN xs.v[1] ELSE Undef

\* reading a property of x throws a TypeError
Nullish(x) == x.t \in {"undefined", "null"}

\* the error-message string of a collector whose outer catch caught message
collectorError(d, message) == Str(<<d.failure, ": ", message>>)

\* finding => ({ Id, Title, Severity, ComplianceStatus, ResourceType, Description })
findingSummary(finding) ==
  Obj(Prune([Id |-> Get(finding, "Id"),
             Title |-> Get(finding, "Title"),
             Severity |-> Or(Get(Get(finding, "Severity"), "Label"), Str(<<"UNKNOWN">>)),
             ComplianceStatus |->
               Or(Get(Get(finding, "Compliance"), "Status"), Str(<<"UNKNOWN">>)),
             ResourceType |->
               Or(Get(First(Get(finding, "Resources")), "Type"), Str(<<"UNKNOWN">>)),
             Description |-> Get(finding, "Description")]))

\* mutant: the compliance summary is fetched outside the inner try
getAwsSecurityHubData_NoInnerCatch(findings, compliance) ==
  IF findings.kind = "failed"
  THEN [data |-> collectorError(SecurityHubAnalyzer, "Command failed"), calls |-> 1]
  ELSE IF compliance.kind = "failed"
  THEN [data |-> collectorError(SecurityHubAnalyzer, "Command failed"), calls |-> 2]
  ELSE IF Get(findings.data, "Findings").t # "array"
  THEN [data |-> collectorError(SecurityHubAnalyzer, "Cannot read properties of undefined"),
        calls |-> 2]
  ELSE [data |-> Str(Stringify(Obj(
                   [findings |-> Arr([i \in 1..Len(Get(findings.data, "Findings").v) |->
                                        findingSummary(Get(findings.data, "Findings").v[i])]),
                    compliance |-> compliance.data]))),
        calls |-> 2]

\* getAwsSecurityHubData(cfg), the two commands answering as given: the string
\* it returns and the number of commands it ran
getAwsSecurityHubData(findings, compliance) ==
  IF findings.kind = "failed"
  THEN [data |-> collectorError(SecurityHubAnalyzer, "Command failed"), calls |-> 1]
  ELSE IF Get(findings.data, "Findings").t # "array"
  THEN [data |-> collectorError(SecurityHubAnalyzer, "Cannot read properties of undefined"),
        calls |-> 2]
  ELSE [data |-> Str(Stringify(Obj(
                   [findings |-> Arr([i \in 1..Len(Get(findings.data, "Findings").v) |->
                                        findingSummary(Get(findings.data, "Findings").v[i])]),
                    compliance |-> IF compliance.kind = "failed" THEN EmptyObj
                                   ELSE compliance.data]))),
        calls |-> 2]

\* the callbacks of the four map calls of getAwsIamData
userSummary(user) ==
  Obj(Prune([UserName |-> Get(user, "UserName"),
             CreateDate |-> Get(user, "CreateDate"),
             PasswordLastUsed |-> Get(user, "PasswordLastUsed"),
             Tags |-> Or(Get(user, "Tags"), Arr(<<>>))]))

roleSummary(role) ==
  Obj(Prune([RoleName |-> Get(role, "RoleName"),
             CreateDate |-> Get(role, "CreateDate"),
             AssumeRolePolicyDocument |-> Get(role, "AssumeRolePolicyDocument"),
             MaxSessionDuration |-> Get(role, "MaxSessionDuration")]))

groupSummary(group) ==
  Obj(Prune([GroupName |-> Get(group, "GroupName"),
             CreateDate |-> Get(group, "CreateDate")]))

policySummary(policy) ==
  Obj(Prune([PolicyName |-> Get(policy, "PolicyName"),
             CreateDate |-> Get(policy, "CreateDate"),
             AttachmentCount |-> Get(policy, "AttachmentCount"),
             IsAttachable |-> Get(policy, "IsAttachable")]))

\* the i-th primary command of getAwsIamData and the member its listing is
\* read from
IamListings == <<"Users", "Roles", "Groups", "Policies">>

\* getAwsIamData(cfg): primaries is the sequence of the answers of the four
\* listing commands, analyzers the answer of accessanalyzer list-analyzers
getAwsIamData(primaries, analyzers) ==
  IF \E k \in 1..4 : primaries[k].kind = "failed"
  THEN [data |-> collectorError(IamAnalyzer, "Command failed"),
        calls |-> CHOOSE k \in 1..4 : /\ primaries[k].kind = "failed"
                                      /\ \A j \in 1..(k - 1) : primaries[j].kind # "failed"]
  ELSE IF \E k \in 1..4 : Get(primaries[k].data, IamListings[k]).t # "array"
  THEN [data |-> collectorError(IamAnalyzer, "Cannot read properties of undefined"),
        calls |-> 5]
  ELSE LET listed(k) == Get(primaries[k].data, IamListings[k]).v
       IN [data |-> Str(Stringify(Obj(
                      [users |-> Arr([i \in 1..Len(listed(1)) |-> userSummary(listed(1)[i])]),
                       roles |-> Arr([i \in 1..Len(listed(2)) |-> roleSummary(listed(2)[i])]),
                       groups |-> Arr([i \in 1..Len(listed(3)) |-> groupSummary(listed(3)[i])]),
                       policies |->
                         Arr([i \in 1..Len(listed(4)) |-> policySummary(listed(4)[i])]),
                       accessAnalyzer |-> IF analyzers.kind = "failed" THEN EmptyObj
                                          ELSE analyzers.data]))),
           calls |-> 5]

\* the loop of getAwsTrustedAdvisorData from the i-th of the top checks on: a
\* check whose result command fails, or whose result has no result member, is
\* skipped
RECURSIVE checkResults(_, _, _)
checkResults(checks, results, i) ==
  IF i > Min(Len(checks), TopChecks) THEN <<>>
  ELSE (IF results[i].kind = "failed" \/ Nullish(results[i].data)
           \/ Nullish(Get(results[i].data, "result"))
        THEN <<>>
        ELSE <<Obj(Prune(
                 [name |-> Get(checks[i], "name"),
                  category |-> Get(checks[i], "category"),
                  status |-> Get(Get(results[i].data, "result"), "status"),
                  resourcesSummary |->
                    Get(Get(results[i].data, "result"), "resourcesSummary")]))>>)
       \o checkResults(checks, results, i + 1)

\* getAwsTrustedAdvisorData(cfg): listing is the answer of
\* describe-trusted-advisor-checks, results[i] the answer of
\* describe-trusted-advisor-check-result for the i-th check listed
getAwsTrustedAdvisorData(listing, results) ==
  IF listing.kind = "failed"
  THEN [data |-> collectorError(TrustedAdvisorAnalyzer, "Command failed"), calls |-> 1]
  ELSE IF Get(listing.data, "checks").t # "array"
  THEN [data |-> collectorError(TrustedAdvisorAnalyzer, "Cannot read properties of undefined"),
        calls |-> 1]
  ELSE [data |-> Str(Stringify(Obj(
                   [checks |-> Arr(checkResults(Get(listing.data, "checks").v, results, 1))]))),
        calls |-> 1 + Min(Len(Get(listing.data, "checks").v), TopChecks)]

\* data = await getAws...Data(cfg), first thing in a process
Collected(name, answers, r) ==
  /\ pc = "start"
  /\ pc' = "done"
  /\ op' = name
  /\ args' = answers
  /\ pre' = Snapshot
  /\ ret' = r.data
  /\ err' = "none"
  /\ awsCalls' = r.calls
  /\ UNCHANGED <<env, cfgFile, jobsFile, cfgWriter, cfg, completionCalls, tasks>>

GetAwsSecurityHubData(findings, compliance) ==
  /\ findings.kind = "failed" => compliance.kind = "failed"    \* that command is not run
  /\ Collected("getAwsSecurityHubData", [findings |-> findings, compliance |-> compliance],
               getAwsSecurityHubData(findings, compliance))

GetAwsIamData(primaries, analyzers) ==
  /\ (\E k \in 1..4 : primaries[k].kind = "failed") => analyzers.kind = "failed"
  /\ Collected("getAwsIamData", [primaries |-> primaries, analyzers |-> analyzers],
               getAwsIamData(primaries, analyzers))

GetAwsTrustedAdvisorData(listing, results) ==
  /\ Len(results) = IF listing.kind = "parsed" /\ Get(listing.data, "checks").t = "array"
                    THEN Len(Get(listing.data, "checks").v) ELSE 0
  /\ Collected("getAwsTrustedAdvisorData", [listing |-> listing, results |-> results],
               getAwsTrustedAdvisorData(listing, results))

\* what the AWS CLI commands of the three collectors answer
FindingsAnswers ==
  {CmdFailed, Parsed(EmptyObj), Parsed(Obj([Findings |-> Arr(<<>>)])),
   Parsed(Obj([Findings |-> Arr(<<Obj([Id |-> Str(<<"f-1">>),
                                        Title |-> Str(<<"Open bucket">>),
                                        Severity |-> Obj([Label |-> Str(<<"HIGH">>)])]),
                                   Obj([Id |-> Str(<<"f-2">>)])>>)]))}

ComplianceAnswers ==
  {CmdFailed, Parsed(Obj([ComplianceSummary |-> Str(<<"3 of 4 rules">>)]))}

ListingAnswers(member, key) ==
  {CmdFailed, Parsed(EmptyObj), Parsed(Obj([m \in {member} |-> Arr(<<>>)])),
   Parsed(Obj([m \in {member} |-> Arr(<<Obj([k \in {key} |-> Str(<<key, "-1">>)])>>)]))}

IamAnswers ==
  {<<u, r, g, p>> : u \in ListingAnswers("Users", "UserName"),
                    r \in ListingAnswers("Roles", "RoleName"),
                    g \in ListingAnswers("Groups", "GroupName"),
                    p \in ListingAnswers("Policies", "PolicyName")}

AnalyzersAnswers ==
  {CmdFailed, Parsed(Obj([analyzers |-> Arr(<<Obj([arn |-> Str(<<"arn:analyzer">>)])>>)]))}

CheckNames == <<"check-1", "check-2", "check-3", "check-4">>

ChecksAnswers ==
  {CmdFailed, Parsed(EmptyObj)} \cup
  {Parsed(Obj([checks |-> Arr([i \in 1..n |->
                                 Obj([name |-> Str(<<CheckNames[i]>>),
                                      category |-> Str(<<"security">>)])])])) :
     n \in 0..MaxChecks}

ResultAnswers ==
  {CmdFailed, Parsed(EmptyObj),
   Parsed(Obj([result |-> Obj([status |-> Str(<<"warning">>)])]))}

InitCollect ==
  /\ Fresh(NoEnv)
  /\ cfgFile = Missing
  /\ cfgWriter = "user"
  /\ jobsFile = Missing
  /\ pre = Snapshot

NextCollect ==
  \/ \E findings \in FindingsAnswers, compliance \in ComplianceAnswers :
       GetAwsSecurityHubData(findings, compliance)
  \/ \E primaries \in IamAnswers, analyzers \in AnalyzersAnswers :
       GetAwsIamData(primaries, analyzers)
  \/ \E listing \in ChecksAnswers, results \in SeqsUpTo(ResultAnswers, MaxChecks) :
       GetAwsTrustedAdvisorData(listing, results)

SpecCollect == InitCollect /\ [][NextCollect]_vars

----------------------------------------------------------------------------
(* Properties of the configuration resolver and the live-mode detector *)

\* the inputs of the loadConfig call that completed last
LoadCli == args.cli
LoadEnv == pre.env
LoadFile == ReadConfig(pre.cfgFile)

\* cli, then environment, then file: the first that supplies a value is v
Precedes(v, fromCli, fromEnv, fromFile) ==
  /\ Truthy(fromCli) => v = fromCli
  /\ ~Truthy(fromCli) /\ Truthy(fromEnv) => v = fromEnv
  /\ ~Truthy(fromCli) /\ ~Truthy(fromEnv) /\ Truthy(fromFile) => v = fromFile
  /\ ~Truthy(fromCli) /\ ~Truthy(fromEnv) /\ ~Truthy(fromFile) => v = Undef

\* the number a CLI text denotes, read digit by digit; NaN without a digit
Denotes(x) == IF Truthy(x) THEN ParseIntStr(x.v) ELSE Undef

\* C1: loadConfig resolves each field by precedence CLI flag > environment
\* variable > persisted file value: the API key and the region over all three
\* sources (the region's environment value being AWS_REGION, else
\* AWS_DEFAULT_REGION), model and maxTokens over CLI and file, scanPeriod over a
\* CLI value in the allowed set and the file.
C1_Precedence ==
  op = "loadConfig" =>
    /\ Precedes(Get(ret, "openaiKey"), Get(LoadCli, "openaiKey"),
                LoadEnv["OPENAI_API_KEY"], Get(LoadFile, "openaiKey"))
    /\ Precedes(Get(ret, "region"), Get(LoadCli, "region"),
                IF Truthy(LoadEnv["AWS_REGION"]) THEN LoadEnv["AWS_REGION"]
                ELSE LoadEnv["AWS_DEFAULT_REGION"],
                Get(LoadFile, "region"))
    /\ Precedes(Get(ret, "model"), Get(LoadCli, "model"), Undef, Get(LoadFile, "model"))
    /\ Truthy(Get(LoadCli, "maxTokens")) =>
         Get(ret, "maxTokens") = Denotes(Get(LoadCli, "maxTokens"))
    /\ ~Truthy(Get(LoadCli, "maxTokens")) =>
         Precedes(Get(ret, "maxTokens"), Undef, Undef, Get(LoadFile, "maxTokens"))
    /\ \A n \in AllowedScanPeriods :
         Denotes(Get(LoadCli, "scanPeriod")) = Num(n) => Get(ret, "scanPeriod") = Num(n)
    /\ ~Truthy(Get(LoadCli, "scanPeriod")) =>
         Precedes(Get(ret, "scanPeriod"), Undef, Undef, Get(LoadFile, "scanPeriod"))

\* all three sources supply the API key and the CLI one is the effective one
C1_Witness ==
  /\ op = "loadConfig"
  /\ Truthy(Get(LoadCli, "openaiKey"))
  /\ Truthy(LoadEnv["OPENAI_API_KEY"])
  /\ Truthy(Get(LoadFile, "openaiKey"))
  /\ Get(ret, "openaiKey") = Str(<<"sk-cli">>)

HasCreds(c) == Truthy(Get(c, "awsCredentials"))

\* C2: ensureAwsLive with mode 'offline' returns live=false for every
\* configuration, with or without AWS credentials, and never raises.
C2_OfflineNeverLive ==
  op = "ensureAwsLive" /\ Get(args.cli, "mode") = Str(<<"offline">>) =>
    err = "none" /\ ret = Obj([live |-> Bool(FALSE)])

\* offline was requested of a configuration that carries credentials
C2_Witness ==
  /\ op = "ensureAwsLive"
  /\ Get(args.cli, "mode") = Str(<<"offline">>)
  /\ HasCreds(args.cfg)
  /\ Get(ret, "live") = Bool(FALSE)

\* C3: ensureAwsLive with mode 'live' raises when the configuration has no
\* AWS credentials, and returns live=true when it has them.
C3_LiveNeedsCredentials ==
  op = "ensureAwsLive" /\ Get(args.cli, "mode") = Str(<<"live">>) =>
    IF HasCreds(args.cfg)
    THEN err = "none" /\ ret = Obj([live |-> Bool(TRUE)])
    ELSE err # "none" /\ ret = Undef

\* live was requested without credentials and the call raised
C3_Witness ==
  /\ op = "ensureAwsLive"
  /\ Get(args.cli, "mode") = Str(<<"live">>)
  /\ ~HasCreds(args.cfg)
  /\ err # "none"
  /\ pc = "done"

\* C4: ensureAwsLive with mode 'auto', or with no mode, returns live=true if
\* and only if the configuration carries AWS credentials, and never raises.
C4_AutoFollowsCredentials ==
  op = "ensureAwsLive" /\ Get(args.cli, "mode") \in {Undef, Str(<<"auto">>)} =>
    err = "none" /\ ret = Obj([live |-> Bool(HasCreds(args.cfg))])

\* no mode was given, the credentials came from the environment, live=true
C4_Witness ==
  /\ op = "ensureAwsLive"
  /\ Get(args.cli, "mode") = Undef
  /\ Truthy(pre.env["AWS_ACCESS_KEY_ID"])
  /\ HasCreds(args.cfg)
  /\ ret = Obj([live |-> Bool(TRUE)])

\* C5: a scan period outside {1,7,30,120,365} is rejected and the value of the
\* next-lower-precedence source is retained: an invalid CLI scanPeriod makes
\* loadConfig return the persisted file's scanPeriod, and an invalid answer
\* makes configure save the existing scanPeriod, or 30 when none exists.
C5_InvalidScanPeriodFallsBack ==
  /\ op = "loadConfig" /\ Truthy(Get(LoadCli, "scanPeriod"))
       /\ (\A n \in AllowedScanPeriods : Denotes(Get(LoadCli, "scanPeriod")) # Num(n))
     => Get(ret, "scanPeriod") = Get(LoadFile, "scanPeriod")
  /\ op = "configure" /\ err = "none"
       /\ (\A n \in AllowedScanPeriods : Denotes(args.answers.scanPeriod) # Num(n))
     => Get(ret, "scanPeriod") =
          IF Truthy(Get(LoadFile, "scanPeriod")) THEN Get(LoadFile, "scanPeriod")
          ELSE Num(30)

RoundTripFields == {"openaiKey", "model", "maxTokens", "scanPeriod", "region",
                    "awsCredentials"}

\* a fresh resolver invocation, without CLI options or environment overrides,
\* on a file that loadConfig wrote
FreshLoadOfWrittenFile ==
  /\ op = "loadConfig"
  /\ pre.cfgWriter = "loadConfig"
  /\ LoadCli = EmptyObj
  /\ pre.env = NoEnv

\* C10 as stated: after loadConfig has written the config file, a fresh
\* loadConfig with an empty CLI option map and no relevant environment
\* variables returns an EffectiveConfig whose API key, model, maxTokens,
\* scanPeriod, region and AWS credentials equal the values in the file.
C10_RoundTripAsStated ==
  FreshLoadOfWrittenFile =>
    \A f \in RoundTripFields : Get(ret, f) = Get(LoadFile, f)

\* C10 amended: the fresh loadConfig returns, for each of these fields, the
\* file's value when that value is truthy; a field the file stores with a
\* falsy value (0, null, the empty string) is absent from the EffectiveConfig.
C10_RoundTripOfTruthyFields ==
  FreshLoadOfWrittenFile =>
    \A f \in RoundTripFields :
      Get(ret, f) = IF Truthy(Get(LoadFile, f)) THEN Get(LoadFile, f) ELSE Undef

\* the file holds the credentials that loadConfig stored from the environment
\* next to a region the user had stored, and the fresh invocation reads both
C10_Witness ==
  /\ FreshLoadOfWrittenFile
  /\ Get(LoadFile, "region") = Str(<<"file-region">>)
  /\ Get(Get(LoadFile, "awsCredentials"), "accessKeyId") = Str(<<"AKIAENV">>)
  /\ Get(ret, "region") = Str(<<"file-region">>)
  /\ Get(ret, "awsCredentials") = Get(LoadFile, "awsCredentials")

----------------------------------------------------------------------------
(* Properties of the job ledger *)

\* the record the logJob call that completed last appended
LoggedJob == LET jobs == getJobLogs(jobsFile).v IN jobs[Len(jobs)]

\* the per-million rate in force: the stored one when one is stored, else the
\* default
RateInForce(file, field, default) ==
  IF Truthy(Get(ReadConfig(file), field)) THEN Get(ReadConfig(file), field).v ELSE default

\* C6: when logJob computes the cost itself, the recorded cost equals
\* (inputTokens - cachedTokens)/1e6 * inputRate + outputTokens/1e6 * outputRate
\* + cachedTokens/1e6 * cachedRate, each rate being the configured per-million
\* rate when one is configured and the default (0.15, 0.6, 0.075) otherwise,
\* cachedTokens counting as 0 when absent.
C6_CostFromConfiguredRates ==
  op = "logJob" /\ err = "none" /\ ~Truthy(args.cost) =>
    LET cached == IF args.cachedTokens = Undef THEN 0 ELSE args.cachedTokens.v
    IN Get(LoggedJob, "cost") =
         Num((args.inputTokens.v - cached) * RateInForce(pre.cfgFile, "inputTokenCost", 150)
             + args.outputTokens.v * RateInForce(pre.cfgFile, "outputTokenCost", 600)
             + cached * RateInForce(pre.cfgFile, "cachedTokenCost", 75))

IsHexChar(c) == \E i \in 1..16 : HexDigits[i] = c

\* getJobLogs ran right after a logJob that returned
ReadAfterLog ==
  /\ op = "getJobLogs"
  /\ pre.prev.op = "logJob"
  /\ pre.prev.err = "none"

\* C7: for every ledger state, logJob(name, tokens, cost, model) followed
\* immediately by getJobLogs in the same process returns a sequence whose last
\* element has the appended name, input/output/cached token counts and model,
\* and whose id equals the id logJob returned, which is 16 hexadecimal
\* characters.
C7_LastRecordIsTheAppended ==
  ReadAfterLog =>
    /\ ret.t = "array"
    /\ ret.v # <<>>
    /\ LET last == ret.v[Len(ret.v)]
           call == pre.prev.args
       IN /\ Get(last, "name") = call.jobName
          /\ Get(last, "inputTokens") = call.inputTokens
          /\ Get(last, "outputTokens") = call.outputTokens
          /\ Get(last, "cachedTokens") = call.cachedTokens
          /\ Get(last, "model") = call.model
          /\ Get(last, "id") = pre.prev.ret
          /\ Len(pre.prev.ret.v) = 16
          /\ \A i \in 1..Len(pre.prev.ret.v) : IsHexChar(pre.prev.ret.v[i])

\* a record was appended to a ledger that already held records, and read back
C7_Witness ==
  /\ ReadAfterLog
  /\ Len(ret.v) >= 2
  /\ Get(ret.v[Len(ret.v)], "id") = pre.prev.ret
  /\ Get(ret.v[Len(ret.v)], "cachedTokens") = Num(200)
  /\ Get(ret.v[1], "id") # pre.prev.ret

----------------------------------------------------------------------------
(* Properties of the analyzers and of the completion client *)

LiveGated == {"analyzeCost", "analyzeLambda", "analyzeLogs", "analyzeIam",
              "analyzeTrustedAdvisor", "analyzeSecurityHub"}

\* the phrase an analyzer's offline text carries
OfflinePhrase(analyzer) ==
  IF analyzer = "analyzeCost" THEN <<"No", "live", "AWS", "credentials">>
  ELSE <<"Offline", "mode">>

CalledOffline == op \in LiveGated /\ ~Truthy(Get(args.live, "live"))

\* C8: every live-gated analyzer (cost, lambda, logs, iam, advisor, security)
\* called with live=false returns its offline stub text (cost: contains 'No
\* live AWS credentials'; lambda: contains 'Offline mode') without invoking the
\* AWS CLI, without calling the completion endpoint, and leaving the job
\* ledger unchanged.
C8_OfflineAnalyzersDoNothing ==
  CalledOffline =>
    /\ err = "none"
    /\ Contains(ret, OfflinePhrase(op))
    /\ awsCalls = 0
    /\ completionCalls = 0
    /\ jobsFile = pre.jobsFile

\* the cost analyzer was called with live=false although the configuration
\* has an API key and credentials and the ledger holds a record
C8_Witness ==
  /\ CalledOffline
  /\ op = "analyzeCost"
  /\ Truthy(Get(args.cfg, "openaiKey"))
  /\ HasCreds(args.cfg)
  /\ pre.jobsFile \in {JsonFile(Arr(<<j>>)) : j \in OldJobs}
  /\ Contains(ret, <<"No", "live", "AWS", "credentials">>)
  /\ jobsFile = pre.jobsFile

NoKeyConfigured(config) ==
  config \in {Undef, Null} \/ ~Truthy(Get(config, "openaiKey"))

\* C9: makeOpenAI raises at construction time whenever no API key is
\* configured (absent key or absent configuration), before any request to the
\* completion endpoint is attempted.
C9_NoKeyRaisesAtConstruction ==
  op = "makeOpenAI" /\ NoKeyConfigured(args.config) =>
    /\ err # "none"
    /\ ret = Undef
    /\ completionCalls = 0
    /\ pc = "done"

\* makeOpenAI was given the configuration that loadConfig resolved without
\* finding an API key anywhere, and raised
C9_Witness ==
  /\ op = "makeOpenAI"
  /\ args.config = cfg
  /\ cfg.t = "object"
  /\ Get(cfg, "openaiKey") = Undef
  /\ err = "Error: OPENAI_API_KEY missing."
  /\ completionCalls = 0

\* the text ask() puts in content for each way the request can fail
ErrorText(completion) ==
  CASE completion.kind = "throws" -> <<"OpenAI API error", ": ">> \o completion.message
    [] completion.kind = "nochoices" -> <<"OpenAI returned no choices">>
    [] OTHER -> <<"OpenAI returned empty content.">>

\* C11: ask never throws to its caller: for every outcome of the remote call
\* (exception, response with no choices, response with empty content, normal
\* response) it returns a response structure, and in every failure outcome the
\* content holds the error text and inputTokens and outputTokens are 0.
C11_AskNeverThrows ==
  op = "ask" =>
    /\ err = "none"
    /\ ret.t = "object"
    /\ Get(ret, "content").t = "string"
    /\ Get(ret, "inputTokens").t = "number"
    /\ Get(ret, "outputTokens").t = "number"
    /\ args.completion.kind # "content" =>
         /\ Contains(Get(ret, "content"), ErrorText(args.completion))
         /\ Get(ret, "inputTokens") = Num(0)
         /\ Get(ret, "outputTokens") = Num(0)

\* the request threw and ask returned the error's message with zero counts
C11_Witness ==
  /\ op = "ask"
  /\ args.completion.kind = "throws"
  /\ err = "none"
  /\ Contains(Get(ret, "content"), <<"429", "rate", "limit">>)
  /\ Get(ret, "inputTokens") = Num(0)
  /\ completionCalls = 1

\* the records of a ledger file as getJobLogs reads them
LedgerOf(file) == getJobLogs(file).v

\* the descriptor of the analyzer that completed last
AnalyzerOf(name) ==
  CASE name = "analyzeCost" -> CostAnalyzer
    [] name = "analyzeLambda" -> LambdaAnalyzer
    [] name = "analyzeLogs" -> LogsAnalyzer
    [] name = "analyzeIam" -> IamAnalyzer
    [] name = "analyzeTrustedAdvisor" -> TrustedAdvisorAnalyzer
    [] OTHER -> SecurityHubAnalyzer

\* the analyzer ran its collector and a primary command of it failed, or the
\* JSON it printed could not be used
CollectorFailed ==
  /\ op \in LiveGated
  /\ args.collect # Undef
  /\ args.collect.kind \in {"failed", "misshaped"}

\* C12: a collector failure (non-zero exit, timeout or invalid JSON of its
\* primary AWS CLI call) never propagates past the collector: the collector
\* returns an error-message string in place of the data, and the analyzer
\* continues with that string to exactly one completion call and one ledger
\* append (the one record is in the ledger unless the ledger's own write
\* fails, which is the only error the analyzer can then end with).
C12_CollectorFailureIsContained ==
  CollectorFailed =>
    /\ Contains(args.collected, <<AnalyzerOf(op).failure>>)
    /\ completionCalls = 1
    /\ err \in {"none", "Error: writeFile failed"}
    /\ err = "none" =>
         /\ Len(LedgerOf(jobsFile)) = Len(LedgerOf(pre.jobsFile)) + 1
         /\ SubSeq(LedgerOf(jobsFile), 1, Len(LedgerOf(pre.jobsFile))) = LedgerOf(pre.jobsFile)
         /\ Get(LedgerOf(jobsFile)[Len(LedgerOf(jobsFile))], "name") = AnalyzerOf(op).jobName
         /\ op = "analyzeCost" => Contains(ret, <<AnalyzerOf(op).failure>>)
    /\ err # "none" => jobsFile = pre.jobsFile

\* the second IAM listing failed; the analyzer asked once and logged one job
C12_Witness ==
  /\ CollectorFailed
  /\ op = "analyzeIam"
  /\ awsCalls = 2
  /\ completionCalls = 1
  /\ err = "none"
  /\ Len(LedgerOf(jobsFile)) = Len(LedgerOf(pre.jobsFile)) + 1

----------------------------------------------------------------------------
(* Properties of the persisted files *)

\* the file holds a well-formed ledger: JSON whose value is an array
WellFormedLedger(file) == file.kind = "json" /\ file.data.t = "array"

\* C13: a ledger file that is missing or does not hold a well-formed ledger
\* is never fatal: getJobLogs returns the empty sequence for every such
\* content, and a logJob on such a file does not raise on account of it.
C13_UnreadableLedgerNeverFatal ==
  ~WellFormedLedger(pre.jobsFile) =>
    /\ op = "getJobLogs" => ret = Arr(<<>>) /\ err = "none"
    /\ op = "logJob" => err \in {"none", "Error: writeFile failed"}

\* C14: the ledger is append-only under sequential use: after each logJob
\* that returns, the ledger equals the ledger before it plus exactly one
\* record at the end, the one with the returned id; no existing record is
\* changed, reordered or removed (a logJob that raises leaves the file as it
\* was).
C14_LedgerAppendOnly ==
  op = "logJob" =>
    /\ err = "none" =>
         /\ WellFormedLedger(jobsFile)
         /\ Len(LedgerOf(jobsFile)) = Len(LedgerOf(pre.jobsFile)) + 1
         /\ \A i \in 1..Len(LedgerOf(pre.jobsFile)) :
              LedgerOf(jobsFile)[i] = LedgerOf(pre.jobsFile)[i]
         /\ Get(LoggedJob, "id") = ret
         /\ Get(LoggedJob, "name") = args.jobName
    /\ err # "none" => jobsFile = pre.jobsFile

\* a third logJob in a row: the two records before it are still in place
C14_Witness ==
  /\ op = "logJob"
  /\ err = "none"
  /\ Len(LedgerOf(jobsFile)) = 3
  /\ LedgerOf(pre.jobsFile)[1] \in OldJobs
  /\ LedgerOf(pre.jobsFile)[2] \notin OldJobs
  /\ LedgerOf(jobsFile)[1] \in OldJobs
  /\ LedgerOf(jobsFile)[2] = LedgerOf(pre.jobsFile)[2]
  /\ Get(LedgerOf(jobsFile)[3], "name") # Get(LedgerOf(jobsFile)[2], "name")

\* both concurrent invocations returned an id
BothReturned == \A p \in Invocations : tasks[p].pc = "done" /\ tasks[p].err = "none"

\* both invocations read the ledger before either rewrote it
ReadsOverlapped == tasks[1].jobs = tasks[2].jobs

\* C15: with two concurrent invocations each running logJob on the same
\* ledger, the interleaving in which both read the whole file before either
\* rewrites it ends with both returning an id and the ledger holding the
\* earlier records plus only one of the two new records (C15_Witness shows
\* that this interleaving exists); when instead one invocation reads after the
\* other wrote, both records are in the ledger.
C15_LostUpdateWhenReadsOverlap ==
  BothReturned =>
    LET before == LedgerOf(pre.jobsFile)
        j1 == tasks[1].job
        j2 == tasks[2].job
    IN IF ReadsOverlapped
       THEN LedgerOf(jobsFile) \in {Append(before, j1), Append(before, j2)}
       ELSE LedgerOf(jobsFile) \in {before \o <<j1, j2>>, before \o <<j2, j1>>}

\* both returned an id, and the record of the first invocation is not in the
\* ledger, which grew by one record only
C15_Witness ==
  /\ BothReturned
  /\ tasks[1].ret # tasks[2].ret
  /\ Len(LedgerOf(jobsFile)) = Len(LedgerOf(pre.jobsFile)) + 1
  /\ Len(LedgerOf(pre.jobsFile)) = 2
  /\ LedgerOf(jobsFile)[3] = tasks[2].job
  /\ \A i \in 1..3 : Get(LedgerOf(jobsFile)[i], "id") # tasks[1].ret

\* credentials are absent, or hold both the access key id and the secret
UnitOrAbsent(creds) ==
  creds = Undef \/ (Truthy(Get(creds, "accessKeyId")) /\ Truthy(Get(creds, "secretAccessKey")))

\* C16: AWS credentials are present as a unit or absent: in every
\* EffectiveConfig returned by loadConfig and in every file loadConfig writes
\* back, awsCredentials is absent or holds both accessKeyId and
\* secretAccessKey.
C16_CredentialsAreAUnit ==
  op = "loadConfig" =>
    /\ UnitOrAbsent(Get(ret, "awsCredentials"))
    /\ cfgFile # pre.cfgFile => UnitOrAbsent(Get(ReadConfig(cfgFile), "awsCredentials"))

\* both AWS_ACCESS_KEY_ID and AWS_SECRET_ACCESS_KEY are set
EnvHasKeyPair == Truthy(LoadEnv["AWS_ACCESS_KEY_ID"]) /\ Truthy(LoadEnv["AWS_SECRET_ACCESS_KEY"])

\* C17: in loadConfig the credentials resolve as a unit: when both
\* environment variables are set, all three fields come from the environment
\* (the session token too, even if the file stores one, and none when the
\* environment has none); when only one of them, or none, is set, the
\* environment credentials count as absent and the result is the file's
\* credential object, or none.
C17_CredentialsResolveAsAUnit ==
  op = "loadConfig" =>
    IF EnvHasKeyPair
    THEN /\ Get(Get(ret, "awsCredentials"), "accessKeyId") = LoadEnv["AWS_ACCESS_KEY_ID"]
         /\ Get(Get(ret, "awsCredentials"), "secretAccessKey") = LoadEnv["AWS_SECRET_ACCESS_KEY"]
         /\ Get(Get(ret, "awsCredentials"), "sessionToken") = LoadEnv["AWS_SESSION_TOKEN"]
    ELSE Get(ret, "awsCredentials") = Get(LoadFile, "awsCredentials")

\* the environment has the key pair and no token, the file stores a token:
\* the result has no token
C17_Witness ==
  /\ op = "loadConfig"
  /\ EnvHasKeyPair
  /\ LoadEnv["AWS_SESSION_TOKEN"] = Undef
  /\ Get(LoadFile, "awsCredentials") = FileCredsWithToken
  /\ Get(Get(ret, "awsCredentials"), "accessKeyId") = Str(<<"AKIAENV">>)
  /\ Get(Get(ret, "awsCredentials"), "sessionToken") = Undef

\* the configuration file after the loadConfig call that completed last
FileAfterLoad == ReadConfig(cfgFile)

\* the fields among fs that loadConfig resolved and the file did not hold
\* with a truthy value
ResolvedButNotStored(fs) ==
  {f \in fs : Truthy(Get(ret, f)) /\ ~Truthy(Get(LoadFile, f))}

\* what a write-back confined to the fields fs does to the file: nothing when
\* no field of fs was resolved without being stored (or when the write
\* failed); otherwise those fields get the resolved value and every other
\* field keeps its value, none being added
WriteBackConfinedTo(fs) ==
  op = "loadConfig" =>
    /\ ResolvedButNotStored(fs) = {} => cfgFile = pre.cfgFile
    /\ cfgFile # pre.cfgFile =>
         /\ DOMAIN FileAfterLoad.v = DOMAIN LoadFile.v \cup ResolvedButNotStored(fs)
         /\ \A f \in ResolvedButNotStored(fs) : Get(FileAfterLoad, f) = Get(ret, f)
         /\ \A f \in DOMAIN LoadFile.v \ ResolvedButNotStored(fs) :
              Get(FileAfterLoad, f) = Get(LoadFile, f)

\* C18 as stated: in the write-back by loadConfig every field the file held
\* before still has the same value, and the only fields ever added are the
\* API key and the AWS credentials, each added exactly when it was resolved
\* from the environment or the CLI and was absent from the file.
C18_WriteBackAsStated == WriteBackConfinedTo({"openaiKey", "awsCredentials"})

\* C18 amended: the fields the write-back adds are the API key, the region
\* and the AWS credentials, each exactly when it was resolved and the file
\* held no truthy value for it (a stored empty key is replaced); every other
\* field of the file keeps its value and no other field is added.
C18_WriteBackAddsKeyRegionCredentials ==
  WriteBackConfinedTo({"openaiKey", "region", "awsCredentials"})

\* the file held a model only; the key came from the CLI and the region from
\* the environment, and both are in the file now, next to the model
C18_Witness ==
  /\ op = "loadConfig"
  /\ DOMAIN LoadFile.v = {"model"}
  /\ Get(LoadCli, "openaiKey") = Str(<<"sk-cli">>)
  /\ Truthy(LoadEnv["AWS_REGION"])
  /\ FileAfterLoad = Obj([model |-> Str(<<"gpt-file">>), openaiKey |-> Str(<<"sk-cli">>),
                          region |-> Str(<<"env-region">>)])

----------------------------------------------------------------------------
(* Properties of the commands *)

\* the order in which scan runs the analyzers: tf, cost, lambda, logs,
\* advisor, security, iam
ScanOrder == <<"analyzeTf", "analyzeCost", "analyzeLambda", "analyzeLogs",
               "analyzeTrustedAdvisor", "analyzeSecurityHub", "analyzeIam">>

ScanIndex(name) == CHOOSE i \in DOMAIN ScanOrder : ScanOrder[i] = name

\* the job names in the order of the analyzers that log them
ScanJobIndex(jobName) ==
  CHOOSE i \in DOMAIN ScanOrder : descriptor(ScanOrder[i]).jobName = jobName

\* the records the command has appended to the ledger so far
AppendedJobs ==
  SubSeq(LedgerOf(jobsFile), Len(LedgerOf(pre.jobsFile)) + 1, Len(LedgerOf(jobsFile)))

\* C19: in a scan the analyzers run strictly one after another in the fixed
\* order tf, cost, lambda, logs, advisor, security, iam: every step of an
\* analyzer (its start, each AWS CLI command, its completion call, its ledger
\* append) comes after the return of the analyzer before it in that order, and
\* the ledger records one scan appends appear in that order.
C19_ScanRunsAnalyzersInOrder ==
  tasks.command = "scan" =>
    /\ \A q \in DOMAIN tasks.trace :
         LET j == ScanIndex(tasks.trace[q].analyzer)
         IN /\ \A p \in 1..(q - 1) : ScanIndex(tasks.trace[p].analyzer) <= j
            /\ j > 1 => \E p \in 1..(q - 1) :
                          tasks.trace[p] = Event(ScanOrder[j - 1], "return")
    /\ \A a, b \in DOMAIN AppendedJobs :
         a < b => ScanJobIndex(Get(AppendedJobs[a], "name"))
                  < ScanJobIndex(Get(AppendedJobs[b], "name"))

\* a live scan ran to the end of the last analyzer: six records were appended,
\* the first by the cost analyzer and the last by the IAM analyzer
C19_Witness ==
  /\ tasks.command = "scan"
  /\ \A i \in DOMAIN tasks.status : tasks.status[i] = "returned"
  /\ Len(AppendedJobs) = 6
  /\ Get(AppendedJobs[1], "name") = Str(<<"cost-analysis">>)
  /\ Get(AppendedJobs[6], "name") = Str(<<"iam-analysis">>)
  /\ awsCalls > 6
  /\ completionCalls = 6

\* nothing of any analyzer has happened: none was started, no AWS CLI command
\* and no completion call was made, and the ledger is as it was
NothingRan ==
  /\ \A i \in DOMAIN tasks.status : tasks.status[i] = "idle"
  /\ tasks.trace = <<>>
  /\ awsCalls = 0
  /\ completionCalls = 0
  /\ jobsFile = pre.jobsFile

\* the command asked for mode live and the configuration has no credentials
LiveWithoutCredentials ==
  /\ takesMode(tasks.command)
  /\ op # "start"
  /\ Get(args.cli, "mode") = Str(<<"live">>)
  /\ ~HasCreds(cfg)

\* C20: a configuration error aborts the whole invocation: for every command
\* that takes --mode, mode live without AWS credentials raises in
\* ensureAwsLive before any analyzer starts, so there is no AWS CLI call, no
\* completion call and no ledger append in that invocation.
C20_LiveWithoutCredentialsAborts ==
  LiveWithoutCredentials =>
    /\ NothingRan
    /\ op = "ensureAwsLive" => err # "none" /\ pc = "done"

\* scan --mode live with an API key and no credentials anywhere: ensureAwsLive
\* threw and the process ended
C20_Witness ==
  /\ LiveWithoutCredentials
  /\ tasks.command = "scan"
  /\ Truthy(Get(cfg, "openaiKey"))
  /\ op = "ensureAwsLive"
  /\ err = "Error: AWS credentials not found but --mode=live requested."
  /\ pc = "done"
  /\ NothingRan

----------------------------------------------------------------------------
(* Properties of error handling around persistence *)

\* C21: persistence errors are silently ignored: a failure to write the
\* configuration file or the ledger file never makes loadConfig or logJob
\* raise, and the analyzer that triggered the write still completes normally:
\* no operation ends with the error of a failed write.
C21_PersistenceErrorsIgnored == err # "Error: writeFile failed"

\* the analyzer that completed last asked for a completion
ReachedCompletion == op \in LiveGated /\ args.completion # Undef

\* the completion request of the analyzer that completed last failed
CompletionFailed == ReachedCompletion /\ args.completion.kind = "throws"

\* the last record of the ledger
LastRecord == LedgerOf(jobsFile)[Len(LedgerOf(jobsFile))]

\* C22: each analyzer invocation that reaches the completion call appends
\* exactly one ledger record, also when the completion call fails: a
\* completion failure is surfaced as the response content, and the record
\* appended for it has inputTokens = 0, outputTokens = 0 and cost = 0.  (The
\* record is in the ledger unless the write of the ledger itself fails; that
\* failure, the only error such an invocation ends with, is what C21 is
\* about.)
C22_OneRecordPerCompletion ==
  ReachedCompletion =>
    /\ completionCalls = 1
    /\ err \in {"none", "Error: writeFile failed"}
    /\ err # "none" => jobsFile = pre.jobsFile
    /\ err = "none" =>
         /\ Len(LedgerOf(jobsFile)) = Len(LedgerOf(pre.jobsFile)) + 1
         /\ SubSeq(LedgerOf(jobsFile), 1, Len(LedgerOf(pre.jobsFile))) = LedgerOf(pre.jobsFile)
         /\ Get(LastRecord, "name") = AnalyzerOf(op).jobName
    /\ CompletionFailed =>
         /\ Contains(Get(args.response, "content"),
                     <<"OpenAI API error", ": ">> \o args.completion.message)
         /\ op = "analyzeCost" /\ err = "none" => Contains(ret, args.completion.message)
         /\ err = "none" =>
              /\ Get(LastRecord, "inputTokens") = Num(0)
              /\ Get(LastRecord, "outputTokens") = Num(0)
              /\ Get(LastRecord, "cost") = Num(0)

\* the completion request of the Trusted Advisor analyzer threw; the analyzer
\* returned and the ledger, which held a record, has one more, with zeros
C22_Witness ==
  /\ CompletionFailed
  /\ op = "analyzeTrustedAdvisor"
  /\ err = "none"
  /\ Len(LedgerOf(pre.jobsFile)) = 1
  /\ Len(LedgerOf(jobsFile)) = 2
  /\ Get(LastRecord, "name") = Str(<<"trustedadvisor-analysis">>)
  /\ Get(LastRecord, "cost") = Num(0)
  /\ Get(LastRecord, "totalTokens") = Num(0)

\* C23: the cost of a ledger record is the provider-supplied cost whenever
\* the provider response supplies one (for every supplied value), and is
\* computed from the per-token-type pricing only when the provider supplied
\* none.
C23_ProviderCostIsRecorded ==
  op = "logJob" /\ err = "none" =>
    IF args.cost # Undef
    THEN Get(LoggedJob, "cost") = args.cost
    ELSE Get(LoggedJob, "cost") =
           calculateCost(args.inputTokens, args.outputTokens, args.cachedTokens,
                         loadConfigResult(EmptyObj, pre.env, ReadConfig(pre.cfgFile)))

----------------------------------------------------------------------------
(* Properties of the collectors *)

\* the member name: value as JSON.stringify writes it
Member(name, value) == <<name, ":">> \o Stringify(value)

\* the primary command of getAwsSecurityHubData printed its findings and the
\* compliance summary failed
ComplianceFailedAlone ==
  /\ op = "getAwsSecurityHubData"
  /\ args.findings.kind = "parsed"
  /\ Get(args.findings.data, "Findings").t = "array"
  /\ args.compliance.kind = "failed"

\* the four listing commands of getAwsIamData printed their listings and the
\* access analyzer command failed
AccessAnalyzerFailedAlone ==
  /\ op = "getAwsIamData"
  /\ \A k \in 1..4 : /\ args.primaries[k].kind = "parsed"
                     /\ Get(args.primaries[k].data, IamListings[k]).t = "array"
  /\ args.analyzers.kind = "failed"

\* describe-trusted-advisor-checks printed its checks and the result command
\* of at least one of them failed
CheckResultFailed ==
  /\ op = "getAwsTrustedAdvisorData"
  /\ args.listing.kind = "parsed"
  /\ Get(args.listing.data, "checks").t = "array"
  /\ \E i \in 1..Len(args.results) : args.results[i].kind = "failed"

\* C24: when a collector's secondary call fails while its primary calls
\* succeed (Security Hub compliance summary, IAM access analyzer, a single
\* Trusted Advisor check result), the collector still returns the serialized
\* primary data, with the failed portion replaced by an empty object (or, for
\* Trusted Advisor, with the failed check omitted and the other checks kept),
\* and returns no error string.
C24_SecondaryFailureKeepsPrimaryData ==
  /\ ComplianceFailedAlone =>
       /\ ~Contains(ret, <<SecurityHubAnalyzer.failure>>)
       /\ awsCalls = 2
       /\ Contains(ret, <<"compliance", ":", "{", "}">>)
       /\ \A i \in 1..Len(Get(args.findings.data, "Findings").v) :
            Contains(ret, Member("Id", Get(Get(args.findings.data, "Findings").v[i], "Id")))
  /\ AccessAnalyzerFailedAlone =>
       /\ ~Contains(ret, <<IamAnalyzer.failure>>)
       /\ awsCalls = 5
       /\ Contains(ret, <<"accessAnalyzer", ":", "{", "}">>)
       /\ \A k \in 1..4 :
            \A i \in 1..Len(Get(args.primaries[k].data, IamListings[k]).v) :
              \A name \in DOMAIN Get(args.primaries[k].data, IamListings[k]).v[i].v :
                Contains(ret, Member(name,
                  Get(Get(args.primaries[k].data, IamListings[k]).v[i], name)))
  /\ CheckResultFailed =>
       /\ ~Contains(ret, <<TrustedAdvisorAnalyzer.failure>>)
       /\ awsCalls = 1 + Len(args.results)
       /\ \A i \in 1..Len(args.results) :
            Contains(ret, Member("name", Get(Get(args.listing.data, "checks").v[i], "name")))
              <=> /\ args.results[i].kind = "parsed"
                  /\ ~Nullish(Get(args.results[i].data, "result"))

\* of two Trusted Advisor checks the result of the first failed: the data
\* holds the second check and not the first
C24_Witness ==
  /\ CheckResultFailed
  /\ Len(args.results) = 2
  /\ args.results[1].kind = "failed"
  /\ Contains(ret, <<"{", "checks", ":", "[", "{", "name", ":", "\"", "check-2", "\"">>)
  /\ ~Contains(ret, <<"check-1">>)
  /\ awsCalls = 3

----------------------------------------------------------------------------
(* Further properties of the configuration resolver and of configure *)

\* C25: the scanPeriod of every configuration loadConfig returns is either
\* absent or one of 1, 7, 30, 120, 365, for every CLI option map and every
\* content of the persisted file.
C25_ScanPeriodIsAllowed ==
  op = "loadConfig" =>
    \/ Get(ret, "scanPeriod") = Undef
    \/ \E n \in AllowedScanPeriods : Get(ret, "scanPeriod") = Num(n)

\* C26: the two mode decisions agree: for every CLI option map, environment
\* and file, when loadConfig(cli) returns cfg and ensureAwsLive(cfg, cli)
\* returns a result, that result's live flag equals the negation of
\* cfg.offline.
C26_ModeDecisionsAgree ==
  op = "ensureAwsLive" /\ err = "none" =>
    /\ Get(args.cfg, "offline").t = "boolean"
    /\ Get(ret, "live") = Bool(~Get(args.cfg, "offline").v)

\* no mode was given and the file holds credentials: live, and not offline;
\* and the same call in a process without them would have been offline
C26_Witness ==
  /\ op = "ensureAwsLive"
  /\ err = "none"
  /\ Get(args.cli, "mode") = Undef
  /\ ~EnvHasKeyPair
  /\ HasCreds(args.cfg)
  /\ Get(ret, "live") = Bool(TRUE)
  /\ Get(args.cfg, "offline") = Bool(FALSE)

----------------------------------------------------------------------------
(* Further properties of the commands and of the analyzers *)

\* the command is scan and ensureAwsLive returned live=false: the mode is
\* offline, or auto without credentials
OfflineScan ==
  /\ tasks.command = "scan"
  /\ op = "ensureAwsLive"
  /\ err = "none"
  /\ ret = Obj([live |-> Bool(FALSE)])

\* C27: a scan that runs offline (mode 'offline', or mode 'auto' without
\* credentials) makes no AWS CLI call and no completion call in any of its
\* seven analyzers and leaves the job ledger unchanged, for every
\* configuration, including one with an API key.
C27_OfflineScanDoesNothing ==
  OfflineScan =>
    /\ awsCalls = 0
    /\ completionCalls = 0
    /\ jobsFile = pre.jobsFile
    /\ \A i \in 1..Len(tasks.trace) : tasks.trace[i].step \in {"start", "return"}
    /\ \A i \in Slots : tasks.status[i] \in {"idle", "returned"}

\* the seven analyzers of an offline scan have returned; the configuration
\* has an API key and credentials, and the ledger held a record
C27_Witness ==
  /\ OfflineScan
  /\ Get(args.cli, "mode") = Str(<<"offline">>)
  /\ Truthy(Get(cfg, "openaiKey"))
  /\ HasCreds(cfg)
  /\ \A i \in Slots : tasks.status[i] = "returned"
  /\ Len(tasks.trace) = 14
  /\ Len(LedgerOf(jobsFile)) = 1
  /\ awsCalls = 0 /\ completionCalls = 0

\* the i-th analyzer of the command has been called, the command running in
\* live mode (the tf command has no mode and calls analyzeTf whatever the
\* credentials are), and no API key is configured
CalledLiveWithoutKey(i) ==
  /\ i \in DOMAIN tasks.status
  /\ tasks.status[i] # "idle"
  /\ ~Truthy(Get(cfg, "openaiKey"))
  /\ IF takesMode(tasks.command) THEN LiveOf = Obj([live |-> Bool(TRUE)]) ELSE TRUE

\* the analyzer returned at once and nothing was run or written
ReturnedWithoutEffect(i) ==
  /\ tasks.status[i] = "returned"
  /\ tasks.early[i] # Undef
  /\ \A k \in 1..Len(tasks.trace) :
       tasks.trace[k].analyzer = plan(tasks.command)[i] =>
         tasks.trace[k].step \in {"start", "return"}
  /\ awsCalls = 0
  /\ completionCalls = 0
  /\ jobsFile = pre.jobsFile
  /\ err = "none"

\* analyzeTf gets as far as its API key test: a plan was named and the file
\* holds JSON
PlanWasRead ==
  /\ Truthy(Or(Get(args.cli, "tfPlan"), Get(args.cli, "tf-plan")))
  /\ tasks.planFile.kind = "json"

----------------------------------------------------------------------------
(* Further properties of the ledger *)

\* C29: logJob writes only the ledger file: whatever the environment, the
\* configuration file and the ledger hold, the persisted configuration file
\* is the same after logJob as before it.
C29_LogJobLeavesConfigFile == op = "logJob" => cfgFile = pre.cfgFile

----------------------------------------------------------------------------
(* Further properties of configure *)

CredentialPrompts == {"accessKeyId", "secretAccessKey", "sessionToken"}

\* the fields configure asks for: every question but the one about the profile
ConfigureFields == Prompts \ {"setupProfile"}

\* the value the configuration had for k before configure saved it: the one
\* loadConfig resolved, or else the one the file stored
ExistingValue(k) ==
  IF k \in CredentialPrompts THEN Get(Get(cfg, "awsCredentials"), k)
  ELSE Or(Get(cfg, k), Get(ReadConfig(pre.cfgFile), k))

\* the value configure saved for k
SavedValue(k) ==
  IF k \in CredentialPrompts THEN Get(Get(ret, "awsCredentials"), k) ELSE Get(ret, k)

\* the value the text between the brackets of the question stands for: none
\* for a secret that is not there, a number for the numeric fields
DefaultShown(k) ==
  LET s == args.shown[k]
  IN CASE k \in CredentialPrompts \cup {"openaiKey"} -> Undef
       [] k \in {"maxTokens", "scanPeriod"} /\ s.t = "string" -> parseInt(s)
       [] k \in {"inputTokenCost", "outputTokenCost", "cachedTokenCost",
                 "temperature"} /\ s.t = "string" -> parseFloat(s)
       [] OTHER -> s

\* C30: in configure an empty answer keeps the existing value: for every
\* field answered with Enter the saved configuration holds the existing value
\* when there is one, and otherwise the default its question shows; so that
\* configure with every answer empty saves a complete configuration again as
\* it was.
C30_EmptyAnswerKeepsValue ==
  (op = "configure" /\ err = "none") =>
    \A k \in ConfigureFields :
      args.answers[k] = Str(<<>>) =>
        SavedValue(k) = IF Truthy(ExistingValue(k)) THEN ExistingValue(k)
                        ELSE DefaultShown(k)

====
